---- MODULE Spec2Model ----
(***************************************************************************)
(* Model of the task execution and retry/escalation engine of HCFPS:       *)
(*   - the worker's process_task (src/docker/app.py) with the processor    *)
(*     modules it calls (storage_io, format_detect, convert_h265,          *)
(*     compress_zip, rename_file, status_writer);                          *)
(*   - the dead-letter-queue handler (src/terraform/lambda_function.py).   *)
(*                                                                         *)
(* Python strings are modelled as sequences of atoms: "s3://in/data.bag"   *)
(* is <<"s3:", "/", "/", "in", "/", "data", ".", "bag">>.  The separators  *)
(* "/" and "." are always atoms of their own, so prefix tests, splitext,   *)
(* basename and split('/', 1) are computed as the code computes them.      *)
(***************************************************************************)
EXTENDS Integers, Sequences, FiniteSets, TLC

(***************************************************************************)
(* Python values                                                           *)
(***************************************************************************)
\* Python's None, as a value of the string sort (no string holds this atom).
None == <<"<None>">>

\* dict.get(key) on a payload: a missing key is the field value Absent.
Absent == <<"<absent>">>

\* Python truthiness of an optional string: None and '' are falsy.
Truthy(s) == s # None /\ s # <<>>

\* dict.get(key, default)
Get(v, default) == IF v = Absent THEN default ELSE v

\* str.startswith; calling it on None raises AttributeError, which callers
\* test with s = None before they use this.
StartsWith(s, p) == Len(s) >= Len(p) /\ SubSeq(s, 1, Len(p)) = p

\* str.endswith
EndsWith(s, p) == Len(s) >= Len(p) /\ SubSeq(s, Len(s) - Len(p) + 1, Len(s)) = p

\* str.rfind, 1-based, 0 when the atom does not occur
LastIndex(s, a) ==
  IF \E i \in 1..Len(s) : s[i] = a
  THEN CHOOSE i \in 1..Len(s) : s[i] = a /\ \A j \in (i+1)..Len(s) : s[j] # a
  ELSE 0

\* str.find, 1-based, 0 when the atom does not occur
FirstIndex(s, a) ==
  IF \E i \in 1..Len(s) : s[i] = a
  THEN CHOOSE i \in 1..Len(s) : s[i] = a /\ \A j \in 1..(i-1) : s[j] # a
  ELSE 0

\* os.path.basename
Basename(p) == SubSeq(p, LastIndex(p, "/") + 1, Len(p))

\* os.path.dirname
Dirname(p) ==
  LET sep == LastIndex(p, "/")
  IN IF sep = 0 THEN <<>> ELSE IF sep = 1 THEN <<"/">> ELSE SubSeq(p, 1, sep - 1)

\* os.path.join(a, b) for a relative b
PathJoin(a, b) == IF a = <<>> THEN b ELSE IF EndsWith(a, <<"/">>) THEN a \o b ELSE a \o <<"/">> \o b

\* os.path.splitext: the extension starts at the last dot of the last path
\* component, unless only dots precede it in that component.
SplitExt(p) ==
  LET sep == LastIndex(p, "/")
      dot == LastIndex(p, ".")
  IN IF dot > sep /\ (\E i \in (sep+1)..(dot-1) : p[i] # ".")
     THEN <<SubSeq(p, 1, dot - 1), SubSeq(p, dot, Len(p))>>
     ELSE <<p, <<>>>>

\* urlparse(uri).path: what follows "scheme://netloc"; the whole string when
\* there is no scheme.
S3Scheme == <<"s3:", "/", "/">>
GsScheme == <<"gs:", "/", "/">>
HasScheme(u) == StartsWith(u, S3Scheme) \/ StartsWith(u, GsScheme)
UrlPath(u) ==
  IF HasScheme(u)
  THEN LET rest == SubSeq(u, 4, Len(u))
           sep  == FirstIndex(rest, "/")
       IN IF sep = 0 THEN <<>> ELSE SubSeq(rest, sep, Len(rest))
  ELSE u

\* uri[5:].split('/', 1) succeeds only when a '/' follows the bucket name;
\* otherwise unpacking into (bucket, key) raises ValueError.
SplitsBucketKey(u) == FirstIndex(SubSeq(u, 4, Len(u)), "/") # 0

(***************************************************************************)
(* Inputs: the environment of the worker process and the task payloads     *)
(***************************************************************************)
\* os.environ of the worker: the bucket variables read by process_task and
\* the two credentials variables update_status auto-detects the store from.
\* An unset variable reads as None.
EnvOf(awsTemp, awsDest, gcpTemp, gcpDest, region, gac) ==
  [AWS_TEMP_BUCKET |-> awsTemp, AWS_DESTINATION_BUCKET |-> awsDest,
   GCP_TEMP_BUCKET |-> gcpTemp, GCP_DESTINATION_BUCKET |-> gcpDest,
   AWS_REGION |-> region, GOOGLE_APPLICATION_CREDENTIALS |-> gac]

\* Deployments: an AWS worker, a GCP worker (each with its buckets set or
\* not), a worker with no configuration at all and one configured for both.
Envs ==
  { EnvOf(t, d, None, None, TRUE, FALSE) : t \in {None, <<"tmp">>}, d \in {None, <<"out">>} }
  \cup { EnvOf(None, None, t, d, FALSE, TRUE) : t \in {None, <<"gtmp">>}, d \in {None, <<"gout">>} }
  \cup { EnvOf(None, None, None, None, FALSE, FALSE),
         EnvOf(<<"tmp">>, <<"out">>, <<"gtmp">>, <<"gout">>, TRUE, TRUE) }

\* The two endpoints call process_task with provider 'aws' and 'gcp'.
Providers == {<<"aws">>, <<"gcp">>}

ActConvert == <<"convert_h265">>
ActCompress == <<"compress">>
ActRename == <<"rename">>
RecognizedActions == {ActConvert, ActCompress, ActRename}

\* Payload values
TaskIdValues == {Absent, <<"t1">>}
ActionValues == RecognizedActions \cup {<<"delete">>, Absent}
SourceValues ==
  { Absent, <<>>,
    <<"s3:", "/", "/", "in", "/", "data", ".", "bag">>,
    <<"gs:", "/", "/", "in", "/", "clip", ".", "MP4">>,
    <<"s3:", "/", "/", "in", "/", "report", ".", "csv">> }
OutputValues ==
  { Absent, <<>>,
    <<"s3:", "/", "/", "res", "/", "result">>,
    <<"/", "data", "/", "result">> }

\* params of rename_file; the options of the other two operations only
\* reach the external codec and archive tools.
ParamsOf(mode, pattern) == [mode |-> mode, pattern |-> pattern]
NoParams == ParamsOf(Absent, Absent)
RenameParamValues ==
  { NoParams,
    ParamsOf(<<"move">>, Absent),
    ParamsOf(<<"copy">>, <<"{basename}", "_", "{date}">>) }

TaskOf(id, action, source, output, params) ==
  [task_id |-> id, action |-> action, source_path |-> source,
   output_path |-> output, params |-> params]

Tasks ==
  { TaskOf(i, a, s, o, NoParams) :
      i \in TaskIdValues, a \in ActionValues, s \in SourceValues, o \in OutputValues }
  \cup
  { TaskOf(i, ActRename, s, o, p) :
      i \in TaskIdValues, s \in SourceValues, o \in OutputValues, p \in RenameParamValues }

(***************************************************************************)
(* Format detection (src/docker/processor/format_detect.py)                *)
(***************************************************************************)
\* str.lower on one atom; the atoms of the model with upper-case letters.
LowerAtom(a) ==
  CASE a = "MP4" -> "mp4"
    [] a = "BAG" -> "bag"
    [] a = "Access Denied" -> "access denied"
    [] a = "Not Found" -> "not found"
    [] a = "Timeout" -> "timeout"
    [] a = "NoSuchKey" -> "nosuchkey"
    [] a = "Does Not Exist" -> "does not exist"
    [] OTHER -> a
Lower(s) == [i \in 1..Len(s) |-> LowerAtom(s[i])]

\* What the environment of a detection answers: which reader libraries can
\* be imported, whether h5py opens the file, whether ffprobe reports a
\* video stream.
Probes == [rosbags : BOOLEAN, mcap : BOOLEAN, h5py : BOOLEAN, h5open : BOOLEAN, ffprobe : BOOLEAN]

is_rosbag(path, probe) == EndsWith(path, <<".", "bag">>) /\ probe.rosbags
is_mcap(path, probe) == EndsWith(path, <<".", "mcap">>) /\ probe.mcap
is_hdf5(path, probe) ==
  /\ EndsWith(path, <<".", "h5">>) \/ EndsWith(path, <<".", "hdf5">>)
  /\ IF probe.h5py THEN probe.h5open ELSE TRUE
VideoExtensions == { <<".", e>> : e \in {"mp4", "avi", "mov", "mkv", "wmv", "flv", "webm"} }
ImageExtensions == { <<".", e>> : e \in {"jpg", "jpeg", "png", "gif", "bmp", "tiff", "webp"} }
ArchiveExtensions == { <<".", e>> : e \in {"zip", "tar", "gz", "bz2", "7z", "rar"} }
is_video(path, probe) == Lower(SplitExt(path)[2]) \in VideoExtensions \/ probe.ffprobe
is_image(path) == Lower(SplitExt(path)[2]) \in ImageExtensions
is_archive(path) == Lower(SplitExt(path)[2]) \in ArchiveExtensions

FormatOf(type, extension) == [type |-> type, extension |-> extension]
NoFormat == FormatOf("none", <<>>)

\* detect_format(file_path): `exists` is os.path.exists(file_path).
detect_format(path, exists, probe) ==
  IF ~exists THEN FormatOf("unknown", <<>>)
  ELSE LET extension == Lower(SplitExt(path)[2])
       IN CASE is_rosbag(path, probe) -> FormatOf("rosbag", extension)
            [] is_mcap(path, probe) -> FormatOf("mcap", extension)
            [] is_hdf5(path, probe) -> FormatOf("hdf5", extension)
            [] is_video(path, probe) -> FormatOf("video", extension)
            [] is_image(path) -> FormatOf("image", extension)
            [] is_archive(path) -> FormatOf("archive", extension)
            [] OTHER -> FormatOf("unknown", extension)

(***************************************************************************)
(* State                                                                   *)
(***************************************************************************)
VARIABLES
  task_data,     \* the payload handed to process_task
  provider,      \* 'aws' or 'gcp', set by the endpoint that received it
  env,           \* os.environ of the worker
  pc,            \* position of the invocation in process_task
  task_id, action, source_path, output_path,   \* locals of process_task
  local_input, local_output,                   \* staging paths
  ok,            \* the local `ok` of process_task
  file_format,   \* the last result of detect_format
  files,         \* local file system: set of [path, content]
  objects,       \* cloud storage: set of [uri, content] uploaded
  dynamodb,      \* DynamoDB tracking table, task_id -> item
  firestore,     \* Firestore tasks collection, task_id -> document
  clock,         \* datetime.now() as a logical clock
  status_ok,     \* what the last update_status call returned
  trace,         \* what this invocation has done so far, in order
  result,        \* what process_task returned: "none", "True", "False", "raised"
  response       \* HTTP status the endpoint answered with, 0 before it answers

execVars == <<task_data, provider, env, pc, task_id, action, source_path,
              output_path, local_input, local_output, ok, file_format, files,
              objects, trace, result, response>>
storeVars == <<dynamodb, firestore, clock, status_ok>>

\* State of the DLQ handler
VARIABLES
  dlq,            \* messages in the dead-letter queue
  batch,          \* response['Messages'] of the running cycle
  idx,            \* index in batch of the message being processed
  lpc,            \* position of lambda_handler
  cur,            \* approximate_receive_count and error_type of the message
  main_queue,     \* payloads the main queue has accepted
  notifications,  \* notifications the SNS topic has accepted
  dlq_trace,      \* what the running cycle has done so far, in order
  lambda_result   \* the body lambda_handler returned, "" while it runs

dlqVars == <<dlq, batch, idx, lpc, cur, main_queue, notifications, dlq_trace, lambda_result>>

\* Further invocations of the worker on the same staging directory
VARIABLES
  attempt,        \* which delivery of the task the worker is processing
  peer,           \* a second invocation of process_task running concurrently:
                  \* its payload, position and local staging paths
  web,            \* submit_task of the web UI handling one task of a request:
                  \* the task, the step it is at and what it has done so far
  call            \* one call of a processor function on its own: the function,
                  \* its arguments and, once it has returned, what it returned

runVars == <<attempt, peer, web, call>>
vars == <<execVars, storeVars, dlqVars, runVars>>

(***************************************************************************)
(* Status store (src/docker/processor/status_writer.py)                    *)
(***************************************************************************)
UnknownId == <<"unknown">>
StoreKeys == {UnknownId, <<"t1">>}

StFailed == <<"FAILED">>
StSuccess == <<"SUCCESS">>

\* An item of the tracking table; a missing string attribute is Absent, a
\* missing number attribute is -1, a missing item has present = FALSE.
ItemOf(present, status, error_type, updated_at, retry_count) ==
  [present |-> present, status |-> status, error_type |-> error_type,
   updated_at |-> updated_at, retry_count |-> retry_count]
NoItem == ItemOf(FALSE, Absent, Absent, -1, -1)

\* "SET #k = :k, ..." of DynamoDB and set(..., merge=True) of Firestore:
\* the attributes named by the update replace the item's, the others stay;
\* the item is created when missing.
MergeItemKeepsFirst(item, update) ==
  IF item.present THEN item
  ELSE ItemOf(TRUE, update.status, update.error_type, update.updated_at, update.retry_count)
MergeItem(item, update) ==
  ItemOf(TRUE,
         IF update.status # Absent THEN update.status ELSE item.status,
         IF update.error_type # Absent THEN update.error_type ELSE item.error_type,
         IF update.updated_at # -1 THEN update.updated_at ELSE item.updated_at,
         IF update.retry_count # -1 THEN update.retry_count ELSE item.retry_count)

\* update_data of update_status: status and updated_at always, error_type
\* only when truthy.
UpdateData(status, error_type, now) ==
  ItemOf(TRUE, status, IF Truthy(error_type) THEN error_type ELSE Absent, now, -1)

\* db_type auto-detected from the environment.
DbType(e) ==
  IF e.AWS_REGION
  THEN IF e.GOOGLE_APPLICATION_CREDENTIALS THEN "both" ELSE "dynamodb"
  ELSE IF e.GOOGLE_APPLICATION_CREDENTIALS THEN "firestore" ELSE "both"

Event(op, a, b) == [op |-> op, a |-> a, b |-> b]

\* update_status(id, status, error_type=err), called after `tr` happened.
\* dynOk and fsOk are the outcomes of the two backend calls; without a
\* credentials file update_firestore_status returns False before writing.
\* The call returns False without writing when the id is falsy, and
\* otherwise the conjunction of the results of the backends it used.
update_status(tr, id, status, err) ==
  \E dynOk, fsOk \in BOOLEAN :
    LET update == UpdateData(status, err, clock)
        useDyn == DbType(env) \in {"dynamodb", "both"}
        useFs  == DbType(env) \in {"firestore", "both"}
        toDyn  == Truthy(id) /\ useDyn /\ dynOk
        toFs   == Truthy(id) /\ useFs /\ env.GOOGLE_APPLICATION_CREDENTIALS /\ fsOk
    IN /\ dynamodb' = IF toDyn THEN [dynamodb EXCEPT ![id] = MergeItem(@, update)] ELSE dynamodb
       /\ firestore' = IF toFs THEN [firestore EXCEPT ![id] = MergeItem(@, update)] ELSE firestore
       /\ status_ok' = (Truthy(id) /\ (useDyn => toDyn) /\ (useFs => toFs))
       /\ clock' = clock + 1
       /\ trace' = Append(tr, Event("status", status, err))

(***************************************************************************)
(* Path resolution of process_task (src/docker/app.py, lines 60-108)       *)
(***************************************************************************)
Aws == <<"aws">>
Gcp == <<"gcp">>

\* lines 66-74
ResolveSource(id, src, prov, e) ==
  IF Truthy(src) THEN src
  ELSE IF prov = Aws /\ Truthy(e.AWS_TEMP_BUCKET)
       THEN S3Scheme \o e.AWS_TEMP_BUCKET \o <<"/", "input_">> \o id
  ELSE IF prov = Gcp /\ Truthy(e.GCP_TEMP_BUCKET)
       THEN GsScheme \o e.GCP_TEMP_BUCKET \o <<"/", "input_">> \o id
  ELSE src

\* str.replace(old, new) for a non-empty old
RECURSIVE ReplaceAll(_, _, _)
ReplaceAll(s, old, new) ==
  IF Len(s) < Len(old) \/ old = <<>> THEN s
  ELSE IF SubSeq(s, 1, Len(old)) = old
       THEN new \o ReplaceAll(SubSeq(s, Len(old) + 1, Len(s)), old, new)
       ELSE <<Head(s)>> \o ReplaceAll(Tail(s), old, new)

\* lines 76-102; src is the source path after its own fallback
ResolveOutputNoFallback(id, act, src, out, prov, e) == out
ResolveOutput(id, act, src, out, prov, e) ==
  IF Truthy(out) THEN out
  ELSE IF act = ActConvert /\ Truthy(src)
       THEN LET name == SplitExt(Basename(UrlPath(src)))
                output_filename == name[1] \o <<"_h265", ".", "mp4">>
            IN IF prov = Aws
               THEN IF Truthy(e.AWS_DESTINATION_BUCKET)
                    THEN S3Scheme \o e.AWS_DESTINATION_BUCKET \o <<"/">> \o output_filename
                    ELSE out
               ELSE IF prov = Gcp
               THEN IF Truthy(e.GCP_DESTINATION_BUCKET)
                    THEN GsScheme \o e.GCP_DESTINATION_BUCKET \o <<"/">> \o output_filename
                    ELSE out
               ELSE ReplaceAll(src, name[1] \o name[2], output_filename)
       ELSE IF prov = Aws /\ Truthy(e.AWS_DESTINATION_BUCKET)
            THEN S3Scheme \o e.AWS_DESTINATION_BUCKET \o <<"/", "output_">> \o id
       ELSE IF prov = Gcp /\ Truthy(e.GCP_DESTINATION_BUCKET)
            THEN GsScheme \o e.GCP_DESTINATION_BUCKET \o <<"/", "output_">> \o id
       ELSE out

\* lines 103-108
WorkDir == <<"/", "tmp", "/", "processing">>
LocalInputWithoutId(id, src) ==
  PathJoin(WorkDir, <<"input">> \o (IF Truthy(src) THEN SplitExt(src)[2] ELSE <<>>))
LocalInput(id, src) ==
  PathJoin(WorkDir, <<"input_">> \o id \o (IF Truthy(src) THEN SplitExt(src)[2] ELSE <<>>))
LocalOutput(id) == PathJoin(WorkDir, <<"output_">> \o id)

(***************************************************************************)
(* Local files and cloud objects                                           *)
(***************************************************************************)
Exists(fs, path) == \E f \in fs : f.path = path
ContentOf(fs, path) == (CHOOSE f \in fs : f.path = path).content
WriteFile(fs, path, content) ==
  {f \in fs : f.path # path} \cup {[path |-> path, content |-> content]}
RemoveFile(fs, path) == {f \in fs : f.path # path}
PutObject(objs, uri, content) ==
  {o \in objs : o.uri # uri} \cup {[uri |-> uri, content |-> content]}

(***************************************************************************)
(* Storage gateway (src/docker/processor/storage_io.py)                    *)
(***************************************************************************)
\* download_file(uri, dest): the values it can return.  Everything runs
\* inside its try block: a None uri (AttributeError on startswith), a uri
\* with no key (ValueError on unpacking) and a failing transfer all give
\* False; another scheme gives False; otherwise the transfer decides.
download_file_any_uri(uri) == {TRUE, FALSE}
download_file(uri) ==
  IF uri # None /\ HasScheme(uri) /\ SplitsBucketKey(uri) THEN {TRUE, FALSE} ELSE {FALSE}

\* upload_file(source, destination_uri): "True", "False" or "raise".  The
\* scheme test is outside any try block, so a None destination raises
\* AttributeError once the source file is known to exist.
upload_file(source_exists, uri) ==
  IF ~source_exists THEN {"False"}
  ELSE IF uri = None THEN {"raise"}
  ELSE IF HasScheme(uri)
       THEN IF SplitsBucketKey(uri) THEN {"True", "False"} ELSE {"False"}
       ELSE {"False"}

(***************************************************************************)
(* Transform operations                                                    *)
(***************************************************************************)
\* convert_h265 routes on the detected type; the codec decides the rest.
ConvertibleTypes == {"video", "rosbag", "mcap"}
convert_h265(input_exists, fmt, toolOk) ==
  input_exists /\ fmt.type \in ConvertibleTypes /\ toolOk

\* compress_file: gzip stream for a .bag input, zip archive otherwise.
CompressContentAlwaysZip(fmt) == "zip"
CompressContent(fmt) == IF fmt.extension = <<".", "bag">> THEN "gzip" ELSE "zip"
compress_file(input_exists, toolOk) == input_exists /\ toolOk

\* process_pattern: one placeholder of the pattern
Replacement(tok, input_path) ==
  LET input_filename == Basename(input_path)
      split == SplitExt(input_filename)
  IN CASE tok = "{filename}" -> input_filename
       [] tok = "{basename}" -> split[1]
       [] tok = "{ext}" -> split[2]
       [] tok = "{timestamp}" -> <<"<date>", "_", "<time>">>
       [] tok = "{date}" -> <<"<date>">>
       [] tok = "{time}" -> <<"<time>">>
       [] tok = "{uuid}" -> <<"<u1>", "-", "<u2>", "-", "<u3>", "-", "<u4>", "-", "<u5>">>
       [] tok = "{uuid_short}" -> <<"<u1>">>
       [] OTHER -> <<tok>>

RECURSIVE Substitute(_, _)
Substitute(pattern, input_path) ==
  IF pattern = <<>> THEN <<>>
  ELSE Replacement(Head(pattern), input_path) \o Substitute(Tail(pattern), input_path)

\* process_pattern(pattern, input_path, {}, default timestamp format)
process_pattern(pattern, input_path) ==
  LET input_extension == SplitExt(Basename(input_path))[2]
      replaced == Substitute(pattern, input_path)
  IN IF /\ ~EndsWith(replaced, input_extension)
        /\ FirstIndex(Basename(replaced), ".") = 0
        /\ input_extension # <<>>
     THEN replaced \o input_extension
     ELSE replaced

\* rename_file: the path the input is copied or moved to
FinalOutputPath(input_path, out_path, params) ==
  LET pattern == Get(params.pattern, <<>>)
  IN IF Truthy(pattern)
     THEN PathJoin(Dirname(out_path), process_pattern(pattern, input_path))
     ELSE out_path

(***************************************************************************)
(* process_task (src/docker/app.py, lines 59-143), one action per stage    *)
(***************************************************************************)
ErrDownload == <<"download_failed">>
ErrProcessing == <<"processing_failed">>
ErrUpload == <<"upload_failed">>
ErrUnknownAction == <<"unknown_action">>

\* Where control goes after each failure branch: `return False` at lines
\* 112, 134 and 141; after the unknown-action branch (line 130) control
\* falls through to the `if not ok` test of line 131.
AfterDownloadFailFallsThrough == "dispatch"
AfterDownloadFail == "returned"
AfterUnknownAction == "check"
AfterProcessingFailFallsThrough == "upload"
AfterProcessingFail == "returned"
AfterUploadFailFallsThrough == "success"
AfterUploadFailRetries == "upload"
AfterUploadFail == "returned"

\* What a failed compress_file leads to: line 123 raises.
OnCompressFailure == "raise"

\* What process_task returns after the SUCCESS write (line 143); `written`
\* is what that update_status call returned.
SuccessReturnOfWrite(written) == IF written THEN "True" ELSE "False"
SuccessReturn(written) == "True"

\* The value process_task has returned once control reaches `next`.
Returned(next, value) == IF next = "returned" THEN value ELSE result

\* lines 60-108
ResolvePaths ==
  /\ pc = "start"
  /\ LET id  == Get(task_data.task_id, UnknownId)
         act == Get(task_data.action, None)
         src == ResolveSource(id, Get(task_data.source_path, None), provider, env)
         out == ResolveOutput(id, act, src, Get(task_data.output_path, None), provider, env)
     IN /\ task_id' = id
        /\ action' = act
        /\ source_path' = src
        /\ output_path' = out
        /\ local_input' = LocalInput(id, src)
        /\ local_output' = LocalOutput(id)
  /\ pc' = "download"
  /\ UNCHANGED <<task_data, provider, env, ok, file_format, files, objects,
                 trace, result, response, storeVars>>
  /\ UNCHANGED <<dlqVars, runVars>>

\* lines 109-112
Download ==
  /\ pc = "download"
  /\ \E got \in download_file(source_path) :
       IF got
       THEN /\ files' = WriteFile(files, local_input, "source")
            /\ trace' = Append(trace, Event("download", <<"ok">>, source_path))
            /\ pc' = "dispatch"
            /\ UNCHANGED <<result, storeVars>>
       ELSE /\ update_status(Append(trace, Event("download", <<"fail">>, source_path)),
                             task_id, StFailed, ErrDownload)
            /\ pc' = AfterDownloadFail
            /\ result' = Returned(AfterDownloadFail, "False")
            /\ UNCHANGED files
  /\ UNCHANGED <<task_data, provider, env, task_id, action, source_path, output_path,
                 local_input, local_output, ok, file_format, objects, response>>
  /\ UNCHANGED <<dlqVars, runVars>>

\* lines 114-116
Convert ==
  /\ pc = "dispatch"
  /\ action = ActConvert
  /\ \E probe \in Probes, toolOk \in BOOLEAN :
       LET fmt  == detect_format(local_input, Exists(files, local_input), probe)
           done == convert_h265(Exists(files, local_input), fmt, toolOk)
       IN /\ file_format' = fmt
          /\ ok' = done
          /\ files' = IF done THEN WriteFile(files, local_output, "h265") ELSE files
          /\ trace' = trace \o << Event("detect", <<fmt.type>>, local_input),
                                  Event("transform", <<IF done THEN "ok" ELSE "fail">>, action) >>
  /\ pc' = "check"
  /\ UNCHANGED <<task_data, provider, env, task_id, action, source_path, output_path,
                 local_input, local_output, objects, result, response, storeVars>>
  /\ UNCHANGED <<dlqVars, runVars>>

\* lines 117-124
Compress ==
  /\ pc = "dispatch"
  /\ action = ActCompress
  /\ \E probe \in Probes, toolOk \in BOOLEAN :
       LET fmt  == detect_format(local_input, Exists(files, local_input), probe)
           compress_success == compress_file(Exists(files, local_input), toolOk)
           tr   == trace \o << Event("detect", <<fmt.type>>, local_input),
                               Event("transform", <<IF compress_success THEN "ok" ELSE "fail">>, action) >>
       IN /\ file_format' = fmt
          /\ trace' = tr
          /\ IF compress_success
             THEN /\ files' = WriteFile(files, local_output, CompressContent(fmt))
                  /\ ok' = TRUE
                  /\ pc' = "check"
                  /\ UNCHANGED result
             ELSE /\ UNCHANGED files
                  /\ IF OnCompressFailure = "raise"
                     THEN /\ pc' = "raised"
                          /\ result' = "raised"
                          /\ UNCHANGED ok
                     ELSE /\ pc' = "check"
                          /\ ok' = FALSE
                          /\ UNCHANGED result
  /\ UNCHANGED <<task_data, provider, env, task_id, action, source_path, output_path,
                 local_input, local_output, objects, response, storeVars>>
  /\ UNCHANGED <<dlqVars, runVars>>

\* lines 125-126
Rename ==
  /\ pc = "dispatch"
  /\ action = ActRename
  /\ \E toolOk \in BOOLEAN :
       LET final == FinalOutputPath(local_input, local_output, task_data.params)
           done  == Exists(files, local_input) /\ toolOk
           moved == Get(task_data.params.mode, <<"copy">>) # <<"copy">>
           copied == WriteFile(files, final, ContentOf(files, local_input))
       IN /\ ok' = done
          /\ files' = IF ~done THEN files
                      ELSE IF moved /\ final # local_input THEN RemoveFile(copied, local_input)
                      ELSE copied
          /\ trace' = Append(trace, Event("transform", <<IF done THEN "ok" ELSE "fail">>, action))
  /\ pc' = "check"
  /\ UNCHANGED <<task_data, provider, env, task_id, action, source_path, output_path,
                 local_input, local_output, file_format, objects, result, response, storeVars>>
  /\ UNCHANGED <<dlqVars, runVars>>

\* lines 127-130
UnknownAction ==
  /\ pc = "dispatch"
  /\ action \notin RecognizedActions
  /\ update_status(trace, task_id, StFailed, ErrUnknownAction)
  /\ ok' = FALSE
  /\ pc' = AfterUnknownAction
  /\ result' = Returned(AfterUnknownAction, "False")
  /\ UNCHANGED <<task_data, provider, env, task_id, action, source_path, output_path,
                 local_input, local_output, file_format, files, objects, response>>
  /\ UNCHANGED <<dlqVars, runVars>>

\* lines 131-134
CheckOk ==
  /\ pc = "check"
  /\ IF ~ok
     THEN /\ update_status(trace, task_id, StFailed, ErrProcessing)
          /\ pc' = AfterProcessingFail
          /\ result' = Returned(AfterProcessingFail, "False")
     ELSE /\ pc' = "upload"
          /\ UNCHANGED <<trace, result, storeVars>>
  /\ UNCHANGED <<task_data, provider, env, task_id, action, source_path, output_path,
                 local_input, local_output, ok, file_format, files, objects, response>>
  /\ UNCHANGED <<dlqVars, runVars>>

\* lines 135-141
Upload ==
  /\ pc = "upload"
  /\ \E upload_result \in upload_file(Exists(files, local_output), output_path) :
       LET tr == Append(trace, Event("upload", <<upload_result>>, output_path))
       IN CASE upload_result = "raise" ->
                 /\ trace' = tr
                 /\ pc' = "raised"
                 /\ result' = "raised"
                 /\ UNCHANGED <<objects, storeVars>>
            [] upload_result = "False" ->
                 /\ update_status(tr, task_id, StFailed, ErrUpload)
                 /\ pc' = AfterUploadFail
                 /\ result' = Returned(AfterUploadFail, "False")
                 /\ UNCHANGED objects
            [] OTHER ->
                 /\ objects' = PutObject(objects, output_path, ContentOf(files, local_output))
                 /\ trace' = tr
                 /\ pc' = "success"
                 /\ UNCHANGED <<result, storeVars>>
  /\ UNCHANGED <<task_data, provider, env, task_id, action, source_path, output_path,
                 local_input, local_output, ok, file_format, files, response>>
  /\ UNCHANGED <<dlqVars, runVars>>

\* lines 142-143
Succeed ==
  /\ pc = "success"
  /\ update_status(trace, task_id, StSuccess, None)
  /\ result' = SuccessReturn(status_ok')
  /\ pc' = "returned"
  /\ UNCHANGED <<task_data, provider, env, task_id, action, source_path, output_path,
                 local_input, local_output, ok, file_format, files, objects, response>>
  /\ UNCHANGED <<dlqVars, runVars>>

\* handle_sns / handle_pubsub (lines 157-163, 180-186): 200 when
\* process_task returned True, 500 when it returned False or raised.
HttpOk == 200
HttpError == 500
Respond ==
  /\ pc \in {"returned", "raised"}
  /\ response' = IF result = "True" THEN HttpOk ELSE HttpError
  /\ pc' = "done"
  /\ UNCHANGED <<task_data, provider, env, task_id, action, source_path, output_path,
                 local_input, local_output, ok, file_format, files, objects, trace,
                 result, storeVars>>
  /\ UNCHANGED <<dlqVars, runVars>>

\* Redelivery: the endpoint answered 500, the queue delivers the same
\* payload again and process_task runs once more in the same container, on
\* the staging directory as the earlier attempt left it.
MaxAttempts == 2
Rerun ==
  /\ pc = "done"
  /\ response = HttpError
  /\ attempt < MaxAttempts
  /\ attempt' = attempt + 1
  /\ pc' = "start"
  /\ task_id' = None /\ action' = None /\ source_path' = None /\ output_path' = None
  /\ local_input' = None /\ local_output' = None
  /\ ok' = FALSE
  /\ file_format' = NoFormat
  /\ trace' = <<>>
  /\ result' = "none"
  /\ response' = 0
  /\ UNCHANGED <<task_data, provider, env, files, objects, storeVars, dlqVars, peer, web, call>>

\* A concurrent invocation of process_task for another payload, by its
\* steps that touch the staging directory: lines 60-108 (its paths), line
\* 109 (the download writes its local input) and lines 114-126 (the
\* transform writes its local output).
PeerOf(task, at, input, output) ==
  [task |-> task, pc |-> at, local_input |-> input, local_output |-> output]
NoPeer == PeerOf(TaskOf(Absent, Absent, Absent, Absent, NoParams), "idle", None, None)

PeerResolve ==
  /\ peer.pc = "start"
  /\ LET id  == Get(peer.task.task_id, UnknownId)
         src == ResolveSource(id, Get(peer.task.source_path, None), provider, env)
     IN peer' = PeerOf(peer.task, "download", LocalInput(id, src), LocalOutput(id))
  /\ UNCHANGED <<execVars, storeVars, dlqVars, attempt, web, call>>

PeerDownload ==
  /\ peer.pc = "download"
  /\ files' = WriteFile(files, peer.local_input, "peer source")
  /\ peer' = [peer EXCEPT !.pc = "dispatch"]
  /\ UNCHANGED <<task_data, provider, env, pc, task_id, action, source_path, output_path,
                 local_input, local_output, ok, file_format, objects, trace, result,
                 response, storeVars, dlqVars, attempt, web, call>>

PeerTransform ==
  /\ peer.pc = "dispatch"
  /\ files' = WriteFile(files, peer.local_output, "peer output")
  /\ peer' = [peer EXCEPT !.pc = "upload"]
  /\ UNCHANGED <<task_data, provider, env, pc, task_id, action, source_path, output_path,
                 local_input, local_output, ok, file_format, objects, trace, result,
                 response, storeVars, dlqVars, attempt, web, call>>

(***************************************************************************)
(* Submission (src/webui/api/submit_task.py, lines 147-229)                *)
(***************************************************************************)
StPending == <<"PENDING">>

\* submit_task handling one task of the request: `step` is the position in
\* SubmitOrder it is at, `log` what it has done.
WebOf(task, step, log) == [task |-> task, step |-> step, log |-> log]
NoWeb == WebOf(TaskOf(Absent, Absent, Absent, Absent, NoParams), 0, <<>>)

\* Lines 181-189 (SQS) and 208-220 (Pub/Sub): the tracking record is saved,
\* then the message is sent.
SubmitOrderSendFirst == <<"send", "save">>
SubmitOrder == <<"save", "send">>

\* line 161: the id generated for the task
NewTaskId == <<"t1">>

\* lines 149-169, 191-196, 222-224: a task without source_path, action or
\* output_path, or whose source_path has neither scheme, is counted as
\* failed and skipped; the others get a task_id.
SubmitValidate ==
  /\ web.step = 0 /\ web.log = <<>>
  /\ web.task # NoWeb.task
  /\ IF /\ Truthy(Get(web.task.source_path, None))
        /\ Truthy(Get(web.task.action, None))
        /\ Truthy(Get(web.task.output_path, None))
        /\ HasScheme(web.task.source_path)
     THEN web' = WebOf([web.task EXCEPT !.task_id = NewTaskId], 1, <<>>)
     ELSE web' = WebOf(web.task, 0, <<"rejected">>)
  /\ UNCHANGED <<execVars, storeVars, dlqVars, attempt, peer, call>>

\* save_task_to_dynamodb (lines 74-100) for an s3:// source,
\* save_task_to_firestore (lines 102-127) for a gs:// source: the record of
\* the new task_id is put with status PENDING; a failure is logged and
\* swallowed.
PendingItem(now) == ItemOf(TRUE, StPending, Absent, now, -1)
SubmitSave ==
  /\ web.step \in DOMAIN SubmitOrder
  /\ SubmitOrder[web.step] = "save"
  /\ \E saved \in BOOLEAN :
       /\ IF saved /\ StartsWith(web.task.source_path, S3Scheme)
          THEN dynamodb' = [dynamodb EXCEPT ![web.task.task_id] = PendingItem(clock)]
          ELSE UNCHANGED dynamodb
       /\ IF saved /\ StartsWith(web.task.source_path, GsScheme)
          THEN firestore' = [firestore EXCEPT ![web.task.task_id] = PendingItem(clock)]
          ELSE UNCHANGED firestore
       /\ web' = WebOf(web.task, web.step + 1, Append(web.log, IF saved THEN "saved" ELSE "save failed"))
  /\ clock' = clock + 1
  /\ UNCHANGED <<execVars, status_ok, dlqVars, attempt, peer, call>>

\* sqs.send_message (lines 184-189) or publisher.publish (lines 211-220):
\* the payload is sent to the queue; a send that raises is caught at line
\* 226 and ends the handling of the task.
SubmitSend ==
  /\ web.step \in DOMAIN SubmitOrder
  /\ SubmitOrder[web.step] = "send"
  /\ \E sent \in BOOLEAN :
       IF sent
       THEN /\ main_queue' = Append(main_queue, web.task)
            /\ web' = WebOf(web.task, web.step + 1, Append(web.log, "sent"))
       ELSE /\ UNCHANGED main_queue
            /\ web' = WebOf(web.task, Len(SubmitOrder) + 1, Append(web.log, "send failed"))
  /\ UNCHANGED <<execVars, storeVars, dlq, batch, idx, lpc, cur, notifications,
                 dlq_trace, lambda_result, attempt, peer, call>>

\* The queue delivers the message to the worker's endpoint: handle_sns
\* (provider 'aws') for the SQS queue, handle_pubsub (provider 'gcp') for
\* the Pub/Sub topic; process_task starts on the payload.
Deliver ==
  /\ pc = "idle"
  /\ main_queue # <<>>
  /\ task_data' = Head(main_queue)
  /\ main_queue' = Tail(main_queue)
  /\ provider' = IF StartsWith(Head(main_queue).source_path, S3Scheme) THEN Aws ELSE Gcp
  /\ pc' = "start"
  /\ UNCHANGED <<env, task_id, action, source_path, output_path, local_input, local_output,
                 ok, file_format, files, objects, trace, result, response, storeVars,
                 dlq, batch, idx, lpc, cur, notifications, dlq_trace, lambda_result, runVars>>

(***************************************************************************)
(* DLQ handler (src/terraform/lambda_function.py)                          *)
(***************************************************************************)
\* An SQS message of the dead-letter queue:
\*   id       MessageId / ReceiptHandle
\*   parses   json.loads(message['Body']) succeeds and gives a dict
\*   count    Attributes['ApproximateReceiveCount'] as SQS reports it at the
\*            next receive
\*   body     the payload: task_id, error_type, retries (-1 when missing),
\*            original_message.source_path, and `text`, the words of the
\*            failure text that str(message) shows.  source_path is Absent
\*            when the payload has no original_message or that has no
\*            source_path, None when it is JSON null, and NotAnObject when
\*            original_message is a JSON string instead of an object.
NotAnObject == <<"<str>">>
BodyOf(id, error_type, retries, source, text) ==
  [task_id |-> id, error_type |-> error_type, retries |-> retries,
   source_path |-> source, text |-> text]
MessageOf(id, parses, count, body) ==
  [id |-> id, parses |-> parses, count |-> count, body |-> body]

ErrTimeout == <<"TIMEOUT_ERROR">>
ErrTemporary == <<"TEMPORARY_FAILURE">>
ErrConnection == <<"CONNECTION_ERROR">>
ErrRateLimit == <<"RATE_LIMIT_ERROR">>
ErrPermission == <<"PERMISSION_ERROR">>
ErrNotFound == <<"NOT_FOUND_ERROR">>
ErrS3NotFound == <<"S3_FILE_NOT_FOUND">>
ErrGcsNotFound == <<"GCS_FILE_NOT_FOUND">>
ErrUnknown == <<"UNKNOWN_ERROR">>

Contains(text, word) == \E i \in 1..Len(text) : text[i] = word

\* str(message): the failure words and the payload strings it shows
MessageText(body) ==
  body.text
  \o (IF body.source_path \in {Absent, None, NotAnObject} THEN <<>> ELSE body.source_path)
  \o Get(body.task_id, <<>>)

\* What get_error_type gives when it raises instead of returning.
Raise == <<"<raise>">>

\* get_error_type inferring a retriable type when no rule matches
get_error_type_unknown_is_temporary(body) ==
  IF body.error_type # Absent THEN body.error_type
  ELSE IF body.source_path = NotAnObject THEN Raise
  ELSE LET source == Get(body.source_path, <<>>)
           shown == MessageText(body)
       IN IF Contains(Lower(shown), "access denied") THEN ErrPermission
          ELSE IF Contains(Lower(shown), "not found") THEN ErrNotFound
          ELSE IF source = None THEN Raise
          ELSE IF StartsWith(source, S3Scheme) /\ Contains(shown, "NoSuchKey") THEN ErrS3NotFound
          ELSE IF StartsWith(source, GsScheme) /\ Contains(shown, "does not exist") THEN ErrGcsNotFound
          ELSE IF Contains(Lower(shown), "timeout") THEN ErrTimeout
          ELSE ErrTemporary

\* get_error_type with the timeout rule tried before the others
get_error_type_timeout_first(body) ==
  IF body.error_type # Absent THEN body.error_type
  ELSE IF body.source_path = NotAnObject THEN Raise
  ELSE LET source == Get(body.source_path, <<>>)
           shown == MessageText(body)
       IN IF Contains(Lower(shown), "timeout") THEN ErrTimeout
          ELSE IF Contains(Lower(shown), "access denied") THEN ErrPermission
          ELSE IF Contains(Lower(shown), "not found") THEN ErrNotFound
          ELSE IF source = None THEN Raise
          ELSE IF StartsWith(source, S3Scheme) /\ Contains(shown, "NoSuchKey") THEN ErrS3NotFound
          ELSE IF StartsWith(source, GsScheme) /\ Contains(shown, "does not exist") THEN ErrGcsNotFound
          ELSE ErrUnknown

\* get_error_type(body, message), lines 101-122.  Line 109 calls .get on
\* original_message and raises AttributeError when that is a string; line
\* 115 calls .startswith on source_path and raises AttributeError when that
\* is None and neither of the first two rules matched.
get_error_type(body) ==
  IF body.error_type # Absent THEN body.error_type
  ELSE IF body.source_path = NotAnObject THEN Raise
  ELSE LET source == Get(body.source_path, <<>>)
           shown == MessageText(body)
       IN IF Contains(Lower(shown), "access denied") THEN ErrPermission
          ELSE IF Contains(Lower(shown), "not found") THEN ErrNotFound
          ELSE IF source = None THEN Raise
          ELSE IF StartsWith(source, S3Scheme) /\ Contains(shown, "NoSuchKey") THEN ErrS3NotFound
          ELSE IF StartsWith(source, GsScheme) /\ Contains(shown, "does not exist") THEN ErrGcsNotFound
          ELSE IF Contains(Lower(shown), "timeout") THEN ErrTimeout
          ELSE ErrUnknown

\* is_retriable_error(error_type), lines 124-132
RetriableErrors == {ErrTimeout, ErrTemporary, ErrConnection, ErrRateLimit}
is_retriable_error_timeout_only(error_type) == error_type = ErrTimeout
is_retriable_error(error_type) == error_type \in RetriableErrors

\* the test of line 80
ShouldRequeueOffByOne(error_type, approximate_receive_count) ==
  is_retriable_error(error_type) /\ approximate_receive_count < 3
ShouldRequeue(error_type, approximate_receive_count) ==
  is_retriable_error(error_type) /\ approximate_receive_count <= 3

\* requeue_message, lines 156-159: the payload that is sent
WithRetryKeepsCount(body) == body
WithRetry(body) ==
  [body EXCEPT !.retries = IF body.retries # -1 THEN body.retries + 1 ELSE 1]

\* receive_message(MaxNumberOfMessages=10, ...), line 41
MaxNumberOfMessages == 10

\* Bounds of the model: the receive counts SQS reports and the retries a
\* payload arrives with.
MaxReceiveCount == 5
MaxRetries == 2

DlqEvent(op, msg, okv) == [op |-> op, msg |-> msg, ok |-> okv]
NoCur == [count |-> -1, error_type |-> None]
Message == batch[idx]

\* The cycle moves on to the next message of the batch.
NextMessage ==
  /\ idx' = idx + 1
  /\ lpc' = "parse"
  /\ cur' = NoCur

\* lines 92-94: the except clause logs and the loop goes on with the next
\* message.
OnExceptionAbortsBatch ==
  /\ idx' = Len(batch) + 1
  /\ lpc' = "parse"
  /\ cur' = NoCur
OnException == NextMessage

\* Where control goes once the error type is known: line 77, the status
\* update.
AfterClassifyDeletesFirst == "delete"
AfterClassifyActsFirst == "act"
AfterClassify == "status"

\* lines 39-55: receive up to ten messages; SQS counts the receive of each.
\* With none the handler returns at once.
Receive ==
  /\ lpc = "idle"
  /\ \A i \in 1..Len(dlq) : dlq[i].count <= MaxReceiveCount
  /\ \E n \in 0..(IF Len(dlq) < MaxNumberOfMessages THEN Len(dlq) ELSE MaxNumberOfMessages) :
       /\ batch' = SubSeq(dlq, 1, n)
       /\ dlq' = [i \in 1..Len(dlq) |->
                    IF i <= n THEN [dlq[i] EXCEPT !.count = @ + 1] ELSE dlq[i]]
       /\ IF n = 0
          THEN /\ lambda_result' = "No messages in DLQ"
               /\ lpc' = "idle"
          ELSE /\ lambda_result' = ""
               /\ lpc' = "parse"
  /\ idx' = 1
  /\ cur' = NoCur
  /\ dlq_trace' = <<>>
  /\ UNCHANGED <<main_queue, notifications, execVars, storeVars, runVars>>

\* line 66, `if not task_id`
NoTaskIdNever(body) == FALSE
NoTaskId(body) == ~Truthy(Get(body.task_id, None))

\* lines 62-70: parse the body and read task_id.  A body that does not
\* parse raises inside the try block: the message is logged and left in the
\* queue.  A body with no task_id is deleted and skipped.
ParseBody ==
  /\ lpc = "parse"
  /\ idx <= Len(batch)
  /\ IF ~Message.parses
     THEN /\ dlq_trace' = Append(dlq_trace, DlqEvent("exception", Message.id, FALSE))
          /\ OnException
          /\ UNCHANGED dlq
     ELSE IF NoTaskId(Message.body)
     THEN \E deleted \in BOOLEAN :
            /\ dlq' = IF deleted THEN SelectSeq(dlq, LAMBDA m : m.id # Message.id) ELSE dlq
            /\ dlq_trace' = Append(dlq_trace, DlqEvent("delete", Message.id, deleted))
            /\ NextMessage
     ELSE /\ lpc' = "classify"
          /\ UNCHANGED <<dlq, dlq_trace, idx, cur>>
  /\ UNCHANGED <<batch, main_queue, notifications, lambda_result, execVars, storeVars, runVars>>

\* lines 73-74: the receive count and the error type.  When get_error_type
\* raises, the except clause of line 92 takes over and the message is left
\* in the queue.
Classify ==
  /\ lpc = "classify"
  /\ IF get_error_type(Message.body) = Raise
     THEN /\ dlq_trace' = Append(dlq_trace, DlqEvent("exception", Message.id, FALSE))
          /\ OnException
     ELSE /\ cur' = [count |-> Message.count, error_type |-> get_error_type(Message.body)]
          /\ dlq_trace' = Append(dlq_trace, DlqEvent("classify", Message.id, TRUE))
          /\ lpc' = AfterClassify
          /\ UNCHANGED idx
  /\ UNCHANGED <<dlq, batch, main_queue, notifications, lambda_result, execVars, storeVars, runVars>>

\* line 77, update_task_status (lines 134-150): FAILED, the error type, the
\* receive count and the time are SET on the task's item; a failing
\* update_item is logged and swallowed.
UpdateTaskStatus ==
  /\ lpc = "status"
  /\ \E stored \in BOOLEAN :
       /\ dynamodb' = IF stored
                      THEN [dynamodb EXCEPT ![Message.body.task_id] =
                              MergeItem(@, ItemOf(TRUE, StFailed, cur.error_type, clock, cur.count))]
                      ELSE dynamodb
       /\ dlq_trace' = Append(dlq_trace, DlqEvent("status", Message.id, stored))
  /\ clock' = clock + 1
  /\ lpc' = "act"
  /\ UNCHANGED <<dlq, batch, idx, cur, main_queue, notifications, lambda_result,
                 execVars, firestore, status_ok, runVars>>

\* Where control goes after requeue_message returns: line 90, the delete.
AfterRequeueWritesStatus == "status"
AfterRequeue == "delete"

\* lines 80-83, requeue_message (lines 152-168): a failing send_message is
\* logged and swallowed.
Requeue ==
  /\ lpc = "act"
  /\ ShouldRequeue(cur.error_type, cur.count)
  /\ \E sent \in BOOLEAN :
       /\ main_queue' = IF sent THEN Append(main_queue, WithRetry(Message.body)) ELSE main_queue
       /\ dlq_trace' = Append(dlq_trace, DlqEvent("requeue", Message.id, sent))
  /\ lpc' = AfterRequeue
  /\ UNCHANGED <<dlq, batch, idx, cur, notifications, lambda_result, execVars, storeVars, runVars>>

\* send_failure_notification, lines 185-190: the message it publishes
NotificationWithoutDetails(id, error_type, task_details, now) ==
  [subject |-> id, task_id |-> id, error_type |-> error_type,
   task_details |-> Absent, timestamp |-> now]
NotificationOf(id, error_type, task_details, now) ==
  [subject |-> id, task_id |-> id, error_type |-> error_type,
   task_details |-> task_details, timestamp |-> now]

\* lines 84-87, send_failure_notification (lines 182-200): a failing
\* publish is logged and swallowed.
Notify ==
  /\ lpc = "act"
  /\ ~ShouldRequeue(cur.error_type, cur.count)
  /\ \E published \in BOOLEAN :
       /\ notifications' =
            IF published
            THEN Append(notifications,
                        NotificationOf(Message.body.task_id, cur.error_type,
                                       Message.body, clock))
            ELSE notifications
       /\ dlq_trace' = Append(dlq_trace, DlqEvent("notify", Message.id, published))
  /\ lpc' = "delete"
  /\ UNCHANGED <<dlq, batch, idx, cur, main_queue, lambda_result, execVars, storeVars, runVars>>

\* line 90, delete_message (lines 170-180): a failing delete is logged and
\* swallowed; the message then stays in the queue.
DeleteMessage ==
  /\ lpc = "delete"
  /\ \E deleted \in BOOLEAN :
       /\ dlq' = IF deleted THEN SelectSeq(dlq, LAMBDA m : m.id # Message.id) ELSE dlq
       /\ dlq_trace' = Append(dlq_trace, DlqEvent("delete", Message.id, deleted))
  /\ NextMessage
  /\ UNCHANGED <<batch, main_queue, notifications, lambda_result, execVars, storeVars, runVars>>

\* lines 96-99
LambdaReturn ==
  /\ lpc = "parse"
  /\ idx > Len(batch)
  /\ lambda_result' = "Processed DLQ messages"
  /\ lpc' = "idle"
  /\ UNCHANGED <<dlq, batch, idx, cur, main_queue, notifications, dlq_trace,
                 execVars, storeVars, runVars>>

(***************************************************************************)
(* Processor functions called on their own                                 *)
(***************************************************************************)
CallOf(fn, args) == [fn |-> fn, args |-> args, returned |-> FALSE, result |-> <<>>]
NoCall == CallOf("none", <<>>)

\* detect_format(file_path): `opens` is whether the rosbags Reader would
\* open the file, which no line of is_rosbag asks.
DetectArgs(path, exists, probe, opens) ==
  [path |-> path, exists |-> exists, probe |-> probe, opens |-> opens]
DetectFormat ==
  /\ call.fn = "detect_format" /\ ~call.returned
  /\ call' = [call EXCEPT !.returned = TRUE,
                           !.result = detect_format(call.args.path, call.args.exists,
                                                    call.args.probe)]
  /\ UNCHANGED <<execVars, storeVars, dlqVars, attempt, peer, web>>

\* fnmatch on one path component: `*` matches any run of atoms.
RECURSIVE Fnmatch(_, _)
Fnmatch(pat, name) ==
  IF pat = <<>> THEN name = <<>>
  ELSE IF Head(pat) = "*"
       THEN Fnmatch(Tail(pat), name) \/ (name # <<>> /\ Fnmatch(pat, Tail(name)))
       ELSE name # <<>> /\ Head(name) = Head(pat) /\ Fnmatch(Tail(pat), Tail(name))

\* glob.glob(os.path.join(source_path, pattern)) over the listing of the
\* directory, in listing order; a name that starts with a dot is only
\* matched by a pattern that starts with one.
GlobMatches(pat, name) ==
  /\ pat # <<>> /\ name # <<>>
  /\ Head(name) = "." => Head(pat) = "."
  /\ Fnmatch(pat, name)
Glob(listing, pat) == SelectSeq(listing, LAMBDA e : GlobMatches(pat, e.name))

\* params of compress_file: `given` holds the keys the caller passed.
CompressParamsOf(given, include, exclude, store_paths) ==
  [given |-> given, include_patterns |-> include, exclude_patterns |-> exclude,
   store_paths |-> store_paths]
ParamGet(params, key, value, default) == IF key \in params.given THEN value ELSE default

\* lines 96-100
RECURSIVE FilesToInclude(_, _)
FilesToInclude(listing, include_patterns) ==
  IF include_patterns = <<>> THEN <<>>
  ELSE Glob(listing, Head(include_patterns)) \o FilesToInclude(listing, Tail(include_patterns))

\* lines 102-106
RECURSIVE WithoutExcluded(_, _, _)
WithoutExcluded(files_to_include, listing, exclude_patterns) ==
  IF exclude_patterns = <<>> THEN files_to_include
  ELSE LET excluded_files == Glob(listing, Head(exclude_patterns))
           kept == SelectSeq(files_to_include,
                             LAMBDA f : \A i \in DOMAIN excluded_files : excluded_files[i] # f)
       IN WithoutExcluded(kept, listing, Tail(exclude_patterns))

\* lines 90-118: the entries zipf.write adds for a directory input, in
\* order, each with the file it was read from.
ArchiveEntries(source, listing, params) ==
  LET include_patterns == ParamGet(params, "include_patterns", params.include_patterns, << <<"*">> >>)
      exclude_patterns == ParamGet(params, "exclude_patterns", params.exclude_patterns, <<>>)
      store_paths == ParamGet(params, "store_paths", params.store_paths, FALSE)
      files_to_include ==
        WithoutExcluded(FilesToInclude(listing, include_patterns), listing, exclude_patterns)
      written == SelectSeq(files_to_include, LAMBDA f : f.isfile)
  IN [i \in 1..Len(written) |->
        [file |-> written[i].name,
         arcname |-> IF store_paths THEN PathJoin(source, written[i].name)
                     ELSE written[i].name]]

CompressArgs(source, listing, params) ==
  [source |-> source, listing |-> listing, params |-> params]
CompressDirectory ==
  /\ call.fn = "compress_file" /\ ~call.returned
  /\ call' = [call EXCEPT !.returned = TRUE,
                           !.result = ArchiveEntries(call.args.source, call.args.listing,
                                                     call.args.params)]
  /\ UNCHANGED <<execVars, storeVars, dlqVars, attempt, peer, web>>

PatternArgs(pattern, input_path) == [pattern |-> pattern, input_path |-> input_path]
ProcessPattern ==
  /\ call.fn = "process_pattern" /\ ~call.returned
  /\ call' = [call EXCEPT !.returned = TRUE,
                           !.result = process_pattern(call.args.pattern, call.args.input_path)]
  /\ UNCHANGED <<execVars, storeVars, dlqVars, attempt, peer, web>>

(***************************************************************************)
(* Specifications                                                          *)
(***************************************************************************)
InitExec ==
  /\ task_data \in Tasks
  /\ provider \in Providers
  /\ env \in Envs
  /\ pc = "start"
  /\ task_id = None /\ action = None /\ source_path = None /\ output_path = None
  /\ local_input = None /\ local_output = None
  /\ ok = FALSE
  /\ file_format = NoFormat
  /\ files = {}
  /\ objects = {}
  /\ trace = <<>>
  /\ result = "none"
  /\ response = 0
  /\ dynamodb = [k \in StoreKeys |-> NoItem]
  /\ firestore = [k \in StoreKeys |-> NoItem]
  /\ clock = 1
  /\ status_ok = TRUE

\* No DLQ cycle is running and the dead-letter queue is empty.
DlqIdle ==
  /\ dlq = <<>>
  /\ batch = <<>>
  /\ idx = 1
  /\ lpc = "idle"
  /\ cur = NoCur
  /\ main_queue = <<>>
  /\ notifications = <<>>
  /\ dlq_trace = <<>>
  /\ lambda_result = ""

\* One delivery, no concurrent invocation.
RunIdle ==
  /\ attempt = 1
  /\ peer = NoPeer
  /\ web = NoWeb
  /\ call = NoCall

\* The worker: one invocation of process_task for every payload, provider
\* and environment.
Init == InitExec /\ DlqIdle /\ RunIdle

Next ==
  \/ ResolvePaths
  \/ Download
  \/ Convert
  \/ Compress
  \/ Rename
  \/ UnknownAction
  \/ CheckOk
  \/ Upload
  \/ Succeed
  \/ Respond

Spec == Init /\ [][Next]_vars

\* Messages of the dead-letter queue: payloads with an explicit error_type,
\* payloads whose error type is inferred from the failure text, and the
\* malformed ones.
DlqTaskId == <<"t1">>
ExplicitErrors == RetriableErrors \cup {ErrProcessing}
FailureTexts ==
  { <<>>, <<"timeout">>, <<"Timeout">>, <<"Access Denied", "timeout">>,
    <<"not found", "NoSuchKey">>, <<"NoSuchKey", "timeout">>,
    <<"does not exist", "Timeout">>, <<"Does Not Exist">> }
DlqSources ==
  { Absent, None, NotAnObject,
    <<"s3:", "/", "/", "in", "/", "data", ".", "bag">>,
    <<"gs:", "/", "/", "in", "/", "clip", ".", "MP4">> }
ReceiveCounts == 1..MaxReceiveCount
RetryValues == {-1} \cup 0..MaxRetries

DlqBodies ==
  { BodyOf(DlqTaskId, e, r, Absent, <<>>) : e \in ExplicitErrors, r \in RetryValues }
  \cup { BodyOf(DlqTaskId, Absent, r, src, txt) :
           r \in {-1, MaxRetries}, src \in DlqSources, txt \in FailureTexts }
  \cup { BodyOf(Absent, ErrTimeout, -1, Absent, <<>>) }

DlqMessages(id) ==
  { MessageOf(id, TRUE, c, b) : c \in ReceiveCounts, b \in DlqBodies }
  \cup { MessageOf(id, FALSE, 1, BodyOf(Absent, Absent, -1, Absent, <<>>)) }

\* The messages two-message batches are drawn from.
BatchMessages(id) ==
  { MessageOf(id, TRUE, 3, BodyOf(DlqTaskId, ErrTimeout, -1, Absent, <<>>)),
    MessageOf(id, TRUE, 4, BodyOf(DlqTaskId, Absent, 0, Absent, <<"timeout">>)),
    MessageOf(id, TRUE, 1, BodyOf(Absent, Absent, -1, Absent, <<>>)),
    MessageOf(id, FALSE, 1, BodyOf(Absent, Absent, -1, Absent, <<>>)),
    MessageOf(id, TRUE, 2, BodyOf(DlqTaskId, Absent, -1, NotAnObject, <<"timeout">>)) }

\* The DLQ handler: the worker is not running; the dead-letter queue holds
\* one message, or a batch of two.
InitDLQ ==
  /\ task_data = TaskOf(Absent, Absent, Absent, Absent, NoParams)
  /\ provider = Aws
  /\ env = EnvOf(None, None, None, None, TRUE, FALSE)
  /\ pc = "idle"
  /\ task_id = None /\ action = None /\ source_path = None /\ output_path = None
  /\ local_input = None /\ local_output = None
  /\ ok = FALSE
  /\ file_format = NoFormat
  /\ files = {}
  /\ objects = {}
  /\ trace = <<>>
  /\ result = "none"
  /\ response = 0
  /\ dynamodb = [k \in StoreKeys |-> NoItem]
  /\ firestore = [k \in StoreKeys |-> NoItem]
  /\ clock = 1
  /\ status_ok = TRUE
  /\ dlq \in { <<m>> : m \in DlqMessages(1) }
             \cup { <<a, b>> : a \in BatchMessages(1), b \in BatchMessages(2) }
  /\ batch = <<>>
  /\ idx = 1
  /\ lpc = "idle"
  /\ cur = NoCur
  /\ main_queue = <<>>
  /\ notifications = <<>>
  /\ dlq_trace = <<>>
  /\ lambda_result = ""
  /\ RunIdle

NextDLQ ==
  \/ Receive
  \/ ParseBody
  \/ Classify
  \/ UpdateTaskStatus
  \/ Requeue
  \/ Notify
  \/ DeleteMessage
  \/ LambdaReturn

SpecDLQ == InitDLQ /\ [][NextDLQ]_vars

\* The worker with redelivery: an AWS worker, with and without its
\* destination bucket, processing a payload again after a failed attempt.
DeployedAws == { EnvOf(<<"tmp">>, d, None, None, TRUE, FALSE) : d \in {None, <<"out">>} }
RerunTasks ==
  { t \in Tasks :
      /\ t.source_path \in { <<"s3:", "/", "/", "in", "/", "data", ".", "bag">>,
                              <<"gs:", "/", "/", "in", "/", "clip", ".", "MP4">> }
      /\ t.output_path \in { Absent, <<"s3:", "/", "/", "res", "/", "result">> } }
InitRerun ==
  /\ InitExec /\ DlqIdle /\ RunIdle
  /\ task_data \in RerunTasks
  /\ provider = Aws
  /\ env \in DeployedAws \cup {EnvOf(<<"tmp">>, <<"out">>, <<"gtmp">>, <<"gout">>, TRUE, TRUE)}
NextRerun == Next \/ Rerun
SpecRerun == InitRerun /\ [][NextRerun]_vars

\* Submission and processing: the web UI submits one task, the queue
\* delivers it, the worker processes it, again after a failed attempt.
SubmitRequests ==
  { TaskOf(Absent, a, s, o, NoParams) :
      a \in ActionValues,
      s \in { Absent, <<"/", "data", "/", "in", ".", "bag">>,
              <<"s3:", "/", "/", "in", "/", "data", ".", "bag">>,
              <<"gs:", "/", "/", "in", "/", "clip", ".", "MP4">> },
      o \in { Absent, <<"s3:", "/", "/", "res", "/", "result">> } }
InitSubmit ==
  /\ task_data = TaskOf(Absent, Absent, Absent, Absent, NoParams)
  /\ provider = Aws
  /\ env \in { EnvOf(<<"tmp">>, <<"out">>, None, None, TRUE, FALSE),
                EnvOf(None, None, <<"gtmp">>, <<"gout">>, FALSE, TRUE),
                EnvOf(<<"tmp">>, <<"out">>, <<"gtmp">>, <<"gout">>, TRUE, TRUE) }
  /\ pc = "idle"
  /\ task_id = None /\ action = None /\ source_path = None /\ output_path = None
  /\ local_input = None /\ local_output = None
  /\ ok = FALSE
  /\ file_format = NoFormat
  /\ files = {}
  /\ objects = {}
  /\ trace = <<>>
  /\ result = "none"
  /\ response = 0
  /\ dynamodb = [k \in StoreKeys |-> NoItem]
  /\ firestore = [k \in StoreKeys |-> NoItem]
  /\ clock = 1
  /\ status_ok = TRUE
  /\ DlqIdle
  /\ attempt = 1
  /\ peer = NoPeer
  /\ web \in { WebOf(t, 0, <<>>) : t \in SubmitRequests }
  /\ call = NoCall
NextSubmit == SubmitValidate \/ SubmitSave \/ SubmitSend \/ Deliver \/ Next \/ Rerun
SpecSubmit == InitSubmit /\ [][NextSubmit]_vars

\* Two workers' invocations on one host: process_task for one payload while
\* a second invocation stages the files of a different task.
PeerTaskIdValues == {Absent, <<"t2">>}
PeerTasks ==
  { TaskOf(i, ActCompress, s, <<"s3:", "/", "/", "res", "/", "other">>, NoParams) :
      i \in PeerTaskIdValues,
      s \in { <<"s3:", "/", "/", "in", "/", "data", ".", "bag">>,
              <<"s3:", "/", "/", "in", "/", "other", ".", "bag">> } }
InitWorkers ==
  /\ InitExec /\ DlqIdle
  /\ task_data \in RerunTasks
  /\ provider = Aws
  /\ env \in DeployedAws
  /\ attempt = 1
  /\ web = NoWeb
  /\ call = NoCall
  /\ peer \in { PeerOf(t, "start", None, None) : t \in PeerTasks }
  /\ peer.task # task_data
NextWorkers == Next \/ PeerResolve \/ PeerDownload \/ PeerTransform
SpecWorkers == InitWorkers /\ [][NextWorkers]_vars

\* The processor functions on their own: one call of detect_format,
\* compress_file on a directory, or process_pattern, for every input below.
DetectPaths ==
  { <<"/", "tmp", "/", "scan", ".", "bag">>, <<"/", "tmp", "/", "scan", ".", "BAG">>,
    <<"/", "tmp", "/", "clip", ".", "mp4">>, <<"/", "tmp", "/", "log", ".", "mcap">>,
    <<"/", "tmp", "/", "notes", ".", "txt">> }
DetectCalls ==
  { CallOf("detect_format", DetectArgs(p, x, probe, o)) :
      p \in DetectPaths, x \in BOOLEAN, probe \in Probes, o \in BOOLEAN }

EntryOf(name, isfile) == [name |-> name, isfile |-> isfile]
Listings ==
  { << EntryOf(<<"a", ".", "txt">>, TRUE), EntryOf(<<"b", ".", "log">>, TRUE),
       EntryOf(<<"c", ".", "txt">>, TRUE) >>,
    << EntryOf(<<"c", ".", "txt">>, TRUE), EntryOf(<<"sub">>, FALSE),
       EntryOf(<<".", "env">>, TRUE), EntryOf(<<"a", ".", "txt">>, TRUE),
       EntryOf(<<"b", ".", "log">>, TRUE) >> }
GlobPatterns ==
  { <<"*">>, <<"*", ".", "txt">>, <<"a", "*">>, <<"*", ".", "log">> }
PatternLists ==
  { <<>> } \cup { <<p>> : p \in GlobPatterns }
  \cup { <<p, q>> : p \in GlobPatterns, q \in GlobPatterns }
ExcludeLists == { <<>>, << <<"*", ".", "log">> >>, << <<"a", "*">> >>, << <<"c", ".", "txt">> >> }
CompressParamValues ==
  { CompressParamsOf(g, IF "include_patterns" \in g THEN i ELSE <<>>,
                        IF "exclude_patterns" \in g THEN x ELSE <<>>,
                        IF "store_paths" \in g THEN s ELSE FALSE) :
      g \in SUBSET {"include_patterns", "exclude_patterns", "store_paths"},
      i \in PatternLists, x \in ExcludeLists, s \in BOOLEAN }
SourceDirectory == <<"/", "data", "/", "set">>
CompressCalls ==
  { CallOf("compress_file", CompressArgs(SourceDirectory, l, p)) :
      l \in Listings, p \in CompressParamValues }

Placeholders ==
  { "{filename}", "{basename}", "{ext}", "{timestamp}", "{date}", "{time}",
    "{uuid}", "{uuid_short}" }
RenamePatterns ==
  { <<"{basename}", "_", "{date}">>, <<"{filename}">>, <<"{basename}", "{ext}">>,
    <<"{uuid_short}", ".", "bin">>, <<"{timestamp}">>, <<"{time}", "-", "{uuid}">>,
    <<"out">>, <<".", "{basename}">> }
RenameInputs ==
  { <<"report", ".", "csv">>, <<"/", "data", "/", "report", ".", "csv">>,
    <<"/", "data", "/", "report">>, <<"/", "tmp", "/", "processing", "/", "input_", "t1", ".", "bag">> }
PatternCalls ==
  { CallOf("process_pattern", PatternArgs(p, i)) :
      p \in RenamePatterns, i \in RenameInputs }

InitProcessor ==
  /\ task_data = TaskOf(Absent, Absent, Absent, Absent, NoParams)
  /\ provider = Aws
  /\ env = EnvOf(None, None, None, None, FALSE, FALSE)
  /\ pc = "idle"
  /\ task_id = None /\ action = None /\ source_path = None /\ output_path = None
  /\ local_input = None /\ local_output = None
  /\ ok = FALSE
  /\ file_format = NoFormat
  /\ files = {}
  /\ objects = {}
  /\ trace = <<>>
  /\ result = "none"
  /\ response = 0
  /\ dynamodb = [k \in StoreKeys |-> NoItem]
  /\ firestore = [k \in StoreKeys |-> NoItem]
  /\ clock = 1
  /\ status_ok = TRUE
  /\ DlqIdle
  /\ attempt = 1
  /\ peer = NoPeer
  /\ web = NoWeb
  /\ call \in DetectCalls \cup CompressCalls \cup PatternCalls
NextProcessor == DetectFormat \/ CompressDirectory \/ ProcessPattern
SpecProcessor == InitProcessor /\ [][NextProcessor]_vars

\* Rounds of main queue -> worker -> dead-letter queue -> requeue for one
\* task.  The payload the DLQ handler republishes is delivered to the
\* worker's SNS endpoint; process_task reads its task fields and ignores the
\* others.  The task fields are not among those the DLQ handler looks at:
\* the payload's action is any of the action values, its paths are fixed.
ArrivalCounts == {1, 4}
RoundsTask(act) ==
  TaskOf(DlqTaskId, act, <<"s3:", "/", "/", "in", "/", "data", ".", "bag">>,
         <<"s3:", "/", "/", "res", "/", "result">>, NoParams)
PayloadOfBody(body, act) ==
  [task_id |-> body.task_id, action |-> RoundsTask(act).action,
   source_path |-> RoundsTask(act).source_path, output_path |-> RoundsTask(act).output_path,
   params |-> RoundsTask(act).params, error_type |-> body.error_type,
   retries |-> body.retries, text |-> body.text]

\* handle_sns, lines 153-157: the republished payload reaches process_task.
DeliverRequeued ==
  /\ pc = "idle"
  /\ main_queue # <<>>
  /\ \E act \in ActionValues : task_data' = PayloadOfBody(Head(main_queue), act)
  /\ main_queue' = Tail(main_queue)
  /\ pc' = "start"
  /\ task_id' = None /\ action' = None /\ source_path' = None /\ output_path' = None
  /\ local_input' = None /\ local_output' = None
  /\ ok' = FALSE
  /\ file_format' = NoFormat
  /\ trace' = <<>>
  /\ result' = "none"
  /\ response' = 0
  /\ UNCHANGED <<provider, env, files, objects, storeVars, dlq, batch, idx, lpc, cur,
                 notifications, dlq_trace, lambda_result, runVars>>

\* handle_sns, lines 157-163: the endpoint has answered and the worker is
\* free for the next delivery.
Acknowledge ==
  /\ pc = "done"
  /\ pc' = "idle"
  /\ UNCHANGED <<task_data, provider, env, task_id, action, source_path, output_path,
                 local_input, local_output, ok, file_format, files, objects, trace, result,
                 response, storeVars, dlqVars, runVars>>

RoundsBodies ==
  { BodyOf(DlqTaskId, ErrTimeout, -1, Absent, <<>>),
    BodyOf(DlqTaskId, Absent, -1, Absent, <<"timeout">>) }
RoundsStart ==
  /\ task_data = TaskOf(Absent, Absent, Absent, Absent, NoParams)
  /\ provider = Aws
  /\ env = EnvOf(<<"tmp">>, <<"out">>, None, None, TRUE, FALSE)
  /\ pc = "idle"
  /\ task_id = None /\ action = None /\ source_path = None /\ output_path = None
  /\ local_input = None /\ local_output = None
  /\ ok = FALSE
  /\ file_format = NoFormat
  /\ files = {}
  /\ objects = {}
  /\ trace = <<>>
  /\ result = "none"
  /\ response = 0
  /\ dynamodb = [k \in StoreKeys |-> NoItem]
  /\ firestore = [k \in StoreKeys |-> NoItem]
  /\ clock = 1
  /\ status_ok = TRUE
  /\ batch = <<>>
  /\ idx = 1
  /\ lpc = "idle"
  /\ cur = NoCur
  /\ main_queue = <<>>
  /\ notifications = <<>>
  /\ dlq_trace = <<>>
  /\ lambda_result = ""
  /\ RunIdle
InitRounds ==
  /\ RoundsStart
  /\ dlq \in { <<MessageOf(0, TRUE, 3, b)>> : b \in RoundsBodies }
NextRounds == NextDLQ \/ DeliverRequeued \/ Next \/ Acknowledge
SpecRounds == InitRounds /\ [][NextRounds]_vars

\* The same rounds for a task whose every execution fails: the queue gives
\* each republished message up and it arrives in the dead-letter queue as a
\* new message, received there for the first time.
MaxClock == 7
Redrive ==
  /\ lpc = "idle" /\ dlq = <<>>
  /\ clock < MaxClock
  /\ main_queue # <<>>
  /\ dlq' = Append(dlq, MessageOf(clock, TRUE, 1, Head(main_queue)))
  /\ main_queue' = Tail(main_queue)
  /\ clock' = clock + 1
  /\ UNCHANGED <<execVars, dynamodb, firestore, status_ok, batch, idx, lpc, cur,
                 notifications, dlq_trace, lambda_result, runVars>>
InitRetryRounds ==
  /\ RoundsStart
  /\ dlq \in { <<MessageOf(0, TRUE, c, b)>> :
                 c \in ArrivalCounts,
                 b \in { BodyOf(DlqTaskId, ErrTimeout, -1, Absent, <<>>),
                         BodyOf(DlqTaskId, ErrProcessing, -1, Absent, <<>>) } }
NextRetryRounds == NextDLQ \/ Redrive
SpecRetryRounds == InitRetryRounds /\ [][NextRetryRounds]_vars

(***************************************************************************)
\* The same task message delivered twice to one worker: process_task runs
\* for it while a second invocation for the same payload stages its files.
\* The second invocation's rename (rename_file.py, lines 51-89) copies or
\* moves its local input as the first one's does.
PeerRename ==
  /\ peer.pc = "dispatch"
  /\ peer.task.action = ActRename
  /\ LET final  == FinalOutputPath(peer.local_input, peer.local_output, peer.task.params)
         done   == Exists(files, peer.local_input)
         moved  == Get(peer.task.params.mode, <<"copy">>) # <<"copy">>
         copied == WriteFile(files, final, ContentOf(files, peer.local_input))
     IN files' = IF ~done THEN files
                 ELSE IF moved /\ final # peer.local_input THEN RemoveFile(copied, peer.local_input)
                 ELSE copied
  /\ peer' = [peer EXCEPT !.pc = "upload"]
  /\ UNCHANGED <<task_data, provider, env, pc, task_id, action, source_path, output_path,
                 local_input, local_output, ok, file_format, objects, trace, result,
                 response, storeVars, dlqVars, attempt, web, call>>
PeerTransformOther ==
  /\ peer.task.action # ActRename
  /\ PeerTransform
InitDuplicate ==
  /\ InitExec /\ DlqIdle
  /\ task_data \in RerunTasks
  /\ provider = Aws
  /\ env \in DeployedAws
  /\ attempt = 1
  /\ web = NoWeb
  /\ call = NoCall
  /\ peer = PeerOf(task_data, "start", None, None)
NextDuplicate == Next \/ PeerResolve \/ PeerDownload \/ PeerTransformOther \/ PeerRename
SpecDuplicate == InitDuplicate /\ [][NextDuplicate]_vars

(* Properties of process_task                                              *)
(***************************************************************************)
Finished == pc \in {"returned", "raised", "done"}

\* positions of the trace where `op` happened with outcome `a`
At(op, a) == {i \in DOMAIN trace : trace[i].op = op /\ trace[i].a = a}
Did(op) == {i \in DOMAIN trace : trace[i].op = op}
StatusWrites == SelectSeq(trace, LAMBDA e : e.op = "status")
LastStatus == StatusWrites[Len(StatusWrites)]
IsFailedWith(e, err) == e.a = StFailed /\ e.b = err

DownloadOk == At("download", <<"ok">>) # {}
TransformOk == At("transform", <<"ok">>) # {}
TransformFailed == At("transform", <<"fail">>) # {}
UploadOk == At("upload", <<"True">>) # {}
UploadFailed == Did("upload") # {} /\ ~UploadOk

\* C1: for a task with a recognized action, one invocation of process_task
\* issues exactly one terminal status write (SUCCESS, or FAILED with a
\* non-empty error_type), whatever download, transform and upload do.
C1_ExactlyOneTerminalWrite ==
  (Finished /\ action \in RecognizedActions) =>
    /\ Len(StatusWrites) = 1
    /\ \/ StatusWrites[1].a = StSuccess
       \/ StatusWrites[1].a = StFailed /\ Truthy(StatusWrites[1].b)

\* C2: no fault escapes process_task: it returns a boolean for every payload
\* and every outcome of the stages, and every failing path has written a
\* FAILED status and returns False.
C2_NoFaultEscapes ==
  Finished =>
    /\ result \in {"True", "False"}
    /\ result = "False" => At("status", StFailed) # {}

\* C3: when the action is compress and compress_file fails, process_task
\* writes FAILED / processing_failed, returns False and attempts no upload.
C3_CompressFailureCaught ==
  (Finished /\ action = ActCompress /\ TransformFailed) =>
    /\ StatusWrites # <<>> /\ IsFailedWith(LastStatus, ErrProcessing)
    /\ result = "False"
    /\ Did("upload") = {}

\* C4: for an action outside convert_h265, compress, rename (a missing one
\* included) that reaches the dispatch, no transform and no upload is
\* attempted and the status recorded at the end of the invocation is
\* FAILED / unknown_action.
C4_UnknownActionRecorded ==
  (Finished /\ action \notin RecognizedActions /\ DownloadOk) =>
    /\ Did("transform") = {} /\ Did("upload") = {}
    /\ StatusWrites # <<>> /\ IsFailedWith(LastStatus, ErrUnknownAction)

\* C5: in one invocation SUCCESS and FAILED are never both written.
C5_NeverSuccessAndFailed ==
  ~(At("status", StSuccess) # {} /\ At("status", StFailed) # {})

C5_Witness ==
  /\ pc = "done"
  /\ At("status", StFailed) # {}
  /\ UploadFailed

\* C6: process_task writes SUCCESS and returns True exactly when download,
\* transform and upload all succeeded, in that order; the SUCCESS write
\* follows the successful upload, and the return value is the same whether
\* or not the status write itself succeeded.
C6_SuccessIffAllStagesOk ==
  /\ \A s \in At("status", StSuccess) :
       \E d \in At("download", <<"ok">>), t \in At("transform", <<"ok">>),
          u \in At("upload", <<"True">>) : d < t /\ t < u /\ u < s
  /\ Finished =>
       /\ (result = "True") <=> (DownloadOk /\ TransformOk /\ UploadOk)
       /\ (At("status", StSuccess) # {}) <=> (DownloadOk /\ TransformOk /\ UploadOk)

C6_Witness ==
  /\ pc = "done"
  /\ result = "True"
  /\ ~status_ok
  /\ dynamodb[task_id].status # StSuccess

\* C7: a failed download is followed by the write of FAILED /
\* download_failed and the return of False, and by no format detection, no
\* transform and no upload, whatever the action is.
C7_DownloadFailure ==
  (At("download", <<"fail">>) # {}) =>
    /\ Len(trace) = 2
    /\ trace[1].op = "download"
    /\ trace[2].op = "status" /\ IsFailedWith(trace[2], ErrDownload)
    /\ result = "False"
    /\ Did("detect") = {} /\ Did("transform") = {} /\ Did("upload") = {}

C7_Witness ==
  /\ pc = "done"
  /\ At("download", <<"fail">>) # {}
  /\ action = ActRename
  /\ Truthy(source_path)

\* C8: when the transform of a recognized action fails after a successful
\* download, the status recorded is FAILED / processing_failed,
\* process_task returns False and no upload is attempted.
C8_TransformFailure ==
  (Finished /\ action \in RecognizedActions /\ DownloadOk /\ TransformFailed) =>
    /\ StatusWrites # <<>> /\ IsFailedWith(LastStatus, ErrProcessing)
    /\ result = "False"
    /\ Did("upload") = {}

\* C9: when download and transform succeed and the upload fails, the status
\* recorded is FAILED / upload_failed, process_task returns False and
\* SUCCESS is never written.
C9_UploadFailure ==
  (Finished /\ DownloadOk /\ TransformOk /\ UploadFailed) =>
    /\ StatusWrites # <<>> /\ IsFailedWith(LastStatus, ErrUpload)
    /\ result = "False"
    /\ At("status", StSuccess) = {}

\* C17: two invocations for distinct tasks running at the same time use
\* disjoint local staging paths, also when the payloads have no task_id.
C17_DisjointStaging ==
  (pc # "start" /\ peer.pc \notin {"idle", "start"}) =>
    {local_input, local_output} \cap {peer.local_input, peer.local_output} = {}

\* C18: an attempt on a staging directory that earlier attempts left behind
\* reads only files it wrote itself: the local input its transform reads is
\* the one its own download wrote, the local output it uploads is the one
\* its own transform wrote, and the object it uploads is that transform's
\* product; so stage outcomes, uploaded object and terminal status are those
\* of a run on a clean directory with the same stage results.
Product ==
  CASE action = ActConvert -> "h265"
    [] action = ActCompress -> CompressContent(file_format)
    [] OTHER -> "source"
C19_SingleAttempt ==
  /\ Cardinality(Did("download")) <= 1
  /\ Cardinality(Did("transform")) <= 1
  /\ Cardinality(Did("upload")) <= 1
  /\ \A t \in Did("transform") : \E d \in Did("download") : d < t
  /\ \A u \in Did("upload") : \E t \in Did("transform") : t < u
  /\ main_queue = <<>> /\ dlq = <<>>

C19_Witness ==
  /\ pc = "done"
  /\ response = HttpError
  /\ At("upload", <<"False">>) # {}
  /\ Cardinality(Did("download")) = 1 /\ Cardinality(Did("transform")) = 1
  /\ main_queue = <<>>

\* C20: each store keeps one record per task_id; a record changes only by
\* an update_status call for that task_id, and after a call that reached
\* the store the record has the status and updated_at of that call (and its
\* error_type when it gave one), whatever the record held before.
StatusCall == Len(trace') > Len(trace) /\ trace'[Len(trace')].op = "status"
Reflects(item) ==
  LET last == trace'[Len(trace')]
  IN /\ item.present
     /\ item.status = last.a
     /\ item.updated_at = clock
     /\ Truthy(last.b) => item.error_type = last.b
C20_LastWriterWins ==
  [][ /\ DOMAIN dynamodb' = StoreKeys /\ DOMAIN firestore' = StoreKeys
      /\ \A k \in StoreKeys :
           /\ dynamodb'[k] # dynamodb[k] =>
                StatusCall /\ k = task_id /\ Reflects(dynamodb'[k])
           /\ firestore'[k] # firestore[k] =>
                StatusCall /\ k = task_id /\ Reflects(firestore'[k])
      /\ (StatusCall /\ status_ok') =>
           /\ DbType(env) \in {"dynamodb", "both"} => Reflects(dynamodb'[task_id])
           /\ DbType(env) \in {"firestore", "both"} => Reflects(firestore'[task_id])
    ]_vars

C20_Witness ==
  /\ attempt = 2
  /\ dynamodb[<<"t1">>].status = StSuccess
  /\ dynamodb[<<"t1">>].updated_at > 1
  /\ firestore[<<"t1">>].status = StSuccess
  /\ firestore[<<"t1">>].error_type = ErrProcessing

\* C21: the record of a submitted task shows only PENDING, SUCCESS or
\* FAILED; the PENDING save comes before the message is sent, so before the
\* worker starts on it; and a record that shows SUCCESS or FAILED never
\* shows PENDING afterwards.
TerminalStatuses == { <<"SUCCESS">>, <<"FAILED">> }
C21_StatusProgression ==
  /\ [](/\ \A i \in DOMAIN web.log :
             web.log[i] = "sent" =>
               \E j \in 1..(i - 1) : web.log[j] \in {"saved", "save failed"}
        /\ \A k \in StoreKeys :
             /\ dynamodb[k].status \in TerminalStatuses \cup {<<"PENDING">>, Absent}
             /\ firestore[k].status \in TerminalStatuses \cup {<<"PENDING">>, Absent}
        /\ (trace # <<>> /\ web # NoWeb) =>
             \E j \in DOMAIN web.log : web.log[j] \in {"saved", "save failed"})
  /\ [][\A k \in StoreKeys :
          /\ dynamodb[k].status \in TerminalStatuses => dynamodb'[k].status \in TerminalStatuses
          /\ firestore[k].status \in TerminalStatuses => firestore'[k].status \in TerminalStatuses
       ]_vars

C21_Witness ==
  /\ web.log = <<"saved", "sent">>
  /\ attempt = 2
  /\ pc = "done" /\ result = "True"
  /\ dynamodb[NewTaskId].status = StSuccess
  /\ dynamodb[NewTaskId].error_type = ErrProcessing

\* What the payload carried, and the buckets of the receiving provider.
PayloadId == Get(task_data.task_id, UnknownId)
PayloadAction == Get(task_data.action, None)
PayloadSource == Get(task_data.source_path, None)
PayloadOutput == Get(task_data.output_path, None)
ProviderScheme == IF provider = Aws THEN S3Scheme ELSE GsScheme
DestinationBucket ==
  IF provider = Aws THEN env.AWS_DESTINATION_BUCKET ELSE env.GCP_DESTINATION_BUCKET
TempBucket == IF provider = Aws THEN env.AWS_TEMP_BUCKET ELSE env.GCP_TEMP_BUCKET
Resolved == pc \notin {"idle", "start"}

\* C22: with an empty output_path, an action other than convert_h265 and the
\* provider's destination bucket configured, the output path is
\* <scheme>://<destination bucket>/output_<task_id>, every upload goes to
\* it and a successful upload leaves the object there.
C22_SynthesizedOutput ==
  (Resolved /\ ~Truthy(PayloadOutput) /\ PayloadAction # ActConvert
     /\ Truthy(DestinationBucket)) =>
    LET target == ProviderScheme \o DestinationBucket \o <<"/", "output_">> \o PayloadId
    IN /\ output_path = target
       /\ \A i \in Did("upload") : trace[i].b = target
       /\ UploadOk => \E o \in objects : o.uri = target

\* C22 witness: a compress task without output_path, received by the AWS
\* endpoint with AWS_DESTINATION_BUCKET=out, has uploaded to s3://out/output_t1.
C22_Witness ==
  /\ provider = Aws /\ env.AWS_DESTINATION_BUCKET = <<"out">>
  /\ task_data.output_path = Absent /\ action = ActCompress
  /\ UploadOk
  /\ \E o \in objects : o.uri = <<"s3:", "/", "/", "out", "/", "output_", "t1">>

\* C23: with an empty output_path, action convert_h265 and a non-empty
\* source path, the output file is <basename of source>_h265.mp4, in the
\* provider's destination bucket when one is configured and next to the
\* source otherwise; the output path is never left empty.
C23_ConvertOutputName ==
  (Resolved /\ ~Truthy(PayloadOutput) /\ PayloadAction = ActConvert
     /\ Truthy(source_path)) =>
    LET base == SplitExt(Basename(UrlPath(source_path)))[1]
        output_filename == base \o <<"_h265", ".", "mp4">>
    IN /\ Truthy(output_path)
       /\ output_path =
            IF Truthy(DestinationBucket)
            THEN ProviderScheme \o DestinationBucket \o <<"/">> \o output_filename
            ELSE SubSeq(source_path, 1, LastIndex(source_path, "/")) \o output_filename

\* C24: an empty source_path becomes
\* <scheme>://<temp bucket>/input_<task_id>; with the temp bucket unset it
\* stays empty, the download fails without raising, and process_task writes
\* FAILED / download_failed and returns False with nothing else done.
C24_SynthesizedSource ==
  (Resolved /\ ~Truthy(PayloadSource)) =>
    IF Truthy(TempBucket)
    THEN source_path = ProviderScheme \o TempBucket \o <<"/", "input_">> \o PayloadId
    ELSE /\ source_path = PayloadSource
         /\ pc \in {"download", "returned", "done"}
         /\ pc # "download" =>
              /\ result = "False"
              /\ trace = << Event("download", <<"fail">>, source_path),
                            Event("status", StFailed, ErrDownload) >>

\* C24 witness: a payload without source_path on a worker without temp
\* bucket has returned False after the failed download.
C24_Witness ==
  /\ task_data.source_path \in {Absent, <<>>} /\ ~Truthy(TempBucket)
  /\ pc = "returned" /\ result = "False"
  /\ ~Truthy(source_path)
  /\ IsFailedWith(LastStatus, ErrDownload)

\* C27: a compress task whose source has extension .bag produces and uploads
\* one gzip stream; a compress task with any other source produces and
\* uploads a zip archive.
C27_BagIsGzipped ==
  (action = ActCompress /\ TransformOk) =>
    LET kind == IF EndsWith(source_path, <<".", "bag">>) THEN "gzip" ELSE "zip"
    IN /\ pc = "check" => ContentOf(files, local_output) = kind
       /\ UploadOk => \E o \in objects : o.uri = output_path /\ o.content = kind

\* C27 witness: the compressed s3://in/data.bag was uploaded as gzip.
C27_Witness ==
  /\ action = ActCompress
  /\ source_path = <<"s3:", "/", "/", "in", "/", "data", ".", "bag">>
  /\ UploadOk
  /\ \E o \in objects : o.uri = output_path /\ o.content = "gzip"

\* C31: a payload with no task_id runs under the id 'unknown': the staging
\* paths are input_unknown<ext> and output_unknown, nothing is written
\* under another key, and the terminal status is written under 'unknown'.
C31_UnknownTaskId ==
  (Resolved /\ task_data.task_id = Absent) =>
    /\ task_id = <<"unknown">>
    /\ local_input = <<"/", "tmp", "/", "processing", "/", "input_", "unknown">>
                       \o (IF Truthy(source_path) THEN SplitExt(source_path)[2] ELSE <<>>)
    /\ local_output = <<"/", "tmp", "/", "processing", "/", "output_", "unknown">>
    /\ \A k \in StoreKeys \ {<<"unknown">>} :
         ~dynamodb[k].present /\ ~firestore[k].present
    /\ (pc = "returned" /\ status_ok) =>
         /\ DbType(env) \in {"dynamodb", "both"} => dynamodb[<<"unknown">>].status = LastStatus.a
         /\ DbType(env) \in {"firestore", "both"} => firestore[<<"unknown">>].status = LastStatus.a

\* C31 witness: a payload without task_id succeeded and its SUCCESS is in
\* the record 'unknown'.
C31_Witness ==
  /\ task_data.task_id = Absent
  /\ pc = "returned" /\ result = "True" /\ status_ok
  /\ local_output = <<"/", "tmp", "/", "processing", "/", "output_", "unknown">>
  /\ dynamodb[<<"unknown">>].status = StSuccess

(***************************************************************************)
(* Properties of the processor functions                                   *)
(***************************************************************************)
HasReturned(fn) == call.fn = fn /\ call.returned

\* C25: detect_format classifies an existing .bag file as rosbag only if,
\* the reader library being available, the file opens as a ROS bag; a .bag
\* file that does not open gets the type of a later check.
C25_RosbagOnlyIfOpens ==
  (HasReturned("detect_format") /\ call.args.exists
     /\ EndsWith(call.args.path, <<".", "bag">>)) =>
    /\ (call.result.type = "rosbag" /\ call.args.probe.rosbags) => call.args.opens
    /\ ~call.args.opens => call.result.type # "rosbag"

\* the regular files of the listing that match at least one include pattern
\* and no exclude pattern, with the defaults for patterns not given
Members(args) ==
  LET include == ParamGet(args.params, "include_patterns", args.params.include_patterns,
                          << <<"*">> >>)
      exclude == ParamGet(args.params, "exclude_patterns", args.params.exclude_patterns, <<>>)
  IN { e.name : e \in
         { args.listing[i] : i \in
             { k \in DOMAIN args.listing :
                 /\ args.listing[k].isfile
                 /\ \E p \in DOMAIN include : GlobMatches(include[p], args.listing[k].name)
                 /\ \A x \in DOMAIN exclude :
                      ~GlobMatches(exclude[x], args.listing[k].name) } } }

\* C26: for a directory input the archive has one entry for each regular
\* file that matches at least one include pattern and no exclude pattern,
\* and no other entry.
C26_ArchiveMembership ==
  HasReturned("compress_file") =>
    /\ { call.result[i].file : i \in DOMAIN call.result } = Members(call.args)
    /\ \A i, j \in DOMAIN call.result :
         call.result[i].file = call.result[j].file => i = j

\* C28: process_pattern returns the pattern with every placeholder
\* substituted, followed by the input's extension when the substituted name
\* has no extension and the input has one; report.csv with
\* {basename}_{date} gives report_<date>.csv.
C28_PatternName ==
  HasReturned("process_pattern") =>
    LET name == Substitute(call.args.pattern, call.args.input_path)
        input_extension == SplitExt(Basename(call.args.input_path))[2]
    IN /\ \A i \in DOMAIN call.result : call.result[i] \notin Placeholders
       /\ call.result =
            IF SplitExt(Basename(name))[2] = <<>> /\ input_extension # <<>>
            THEN name \o input_extension
            ELSE name
       /\ (call.args.pattern = <<"{basename}", "_", "{date}">>
             /\ Basename(call.args.input_path) = <<"report", ".", "csv">>)
            => call.result = <<"report", "_", "<date>", ".", "csv">>

(***************************************************************************)
(* Properties of the DLQ handler                                           *)
(***************************************************************************)
\* what the running cycle did for message `id`
DlqDid(op, id) == {i \in DOMAIN dlq_trace : dlq_trace[i].op = op /\ dlq_trace[i].msg = id}
LastDlqEvent == dlq_trace[Len(dlq_trace)]

\* C10: a message classified TIMEOUT_ERROR with receive count 3 is sent to
\* the main queue with retries incremented (1 when the payload had none)
\* and no failure notification is sent for it; with receive count 4 a
\* failure notification is sent and nothing is sent to the main queue.
C10_RetryBoundary ==
  (lpc = "delete" /\ cur.error_type = ErrTimeout) =>
    /\ cur.count = 3 =>
         /\ DlqDid("requeue", Message.id) # {}
         /\ DlqDid("notify", Message.id) = {}
         /\ LastDlqEvent.op = "requeue"
         /\ LastDlqEvent.ok =>
              /\ main_queue # <<>>
              /\ main_queue[Len(main_queue)] =
                   [Message.body EXCEPT
                      !.retries = IF Message.body.retries = -1 THEN 1
                                  ELSE Message.body.retries + 1]
    /\ cur.count = 4 =>
         /\ DlqDid("notify", Message.id) # {}
         /\ DlqDid("requeue", Message.id) = {}
         /\ LastDlqEvent.op = "notify"
         /\ LastDlqEvent.ok =>
              /\ notifications # <<>>
              /\ notifications[Len(notifications)].task_id = Message.body.task_id
              /\ notifications[Len(notifications)].error_type = ErrTimeout

C10_Witness ==
  /\ lpc = "delete"
  /\ idx = 2
  /\ cur.error_type = ErrTimeout /\ cur.count = 4
  /\ batch[1].count = 3
  /\ \E i \in DlqDid("requeue", 1) : dlq_trace[i].ok
  /\ \E i \in DlqDid("notify", 2) : dlq_trace[i].ok
  /\ Len(main_queue) = 1 /\ main_queue[1].retries = 1
  /\ Len(notifications) = 1

\* The messages of the running batch, the ones that carry a task_id, and
\* what the cycle did for a message, in order.
BatchIds == {batch[k].id : k \in DOMAIN batch}
MsgById(id) == CHOOSE m \in {batch[k] : k \in DOMAIN batch} : m.id = id
HasTaskId(m) == m.parses /\ Truthy(Get(m.body.task_id, None))
Handled(id) == \E k \in DOMAIN batch : batch[k].id = id /\ k < idx
OpsOf(id) ==
  LET mine == SelectSeq(dlq_trace, LAMBDA e : e.msg = id)
  IN [i \in DOMAIN mine |-> mine[i].op]
ClassificationRaises(m) == HasTaskId(m) /\ get_error_type(m.body) = Raise

\* The decision as the specification words it: the retriable set and the
\* receive count of at most 3.
SpecRetriable ==
  { <<"TIMEOUT_ERROR">>, <<"TEMPORARY_FAILURE">>, <<"CONNECTION_ERROR">>, <<"RATE_LIMIT_ERROR">> }
SpecRetry(m) == get_error_type(m.body) \in SpecRetriable /\ m.count <= 3
ExactlyOneAction(m) ==
  LET rq == DlqDid("requeue", m.id)
      nt == DlqDid("notify", m.id)
  IN /\ Cardinality(rq) + Cardinality(nt) = 1
     /\ (rq # {}) <=> SpecRetry(m)

\* C11 as stated: for every handled message with a task_id exactly one of
\* requeue and notification is performed, requeue exactly when the error
\* type is retriable and the receive count is at most 3.
C11_ExactlyOneAction ==
  \A id \in BatchIds : (Handled(id) /\ HasTaskId(MsgById(id))) => ExactlyOneAction(MsgById(id))

\* C11 amended: the same for every message with a task_id whose
\* classification returns; a message whose classification raises gets
\* neither action, no status write and no delete, and stays in the queue.
C11_ExactlyOneActionUnlessRaised ==
  \A id \in BatchIds :
    (Handled(id) /\ HasTaskId(MsgById(id))) =>
      IF ClassificationRaises(MsgById(id))
      THEN /\ OpsOf(id) = <<"exception">>
           /\ \E i \in DOMAIN dlq : dlq[i].id = id
      ELSE ExactlyOneAction(MsgById(id))

C11_Witness ==
  /\ lpc = "parse" /\ idx = 3
  /\ HasTaskId(batch[1]) /\ HasTaskId(batch[2])
  /\ DlqDid("requeue", batch[1].id) # {}
  /\ ClassificationRaises(batch[2])
  /\ DlqDid("exception", batch[2].id) # {}

\* C12: for a message with a task_id no delete precedes its status update
\* or its requeue or notification: every delete of it comes after both.
C12_DeleteAfterSideEffects ==
  \A i \in DOMAIN dlq_trace :
    (dlq_trace[i].op = "delete" /\ HasTaskId(MsgById(dlq_trace[i].msg))) =>
      /\ \E j \in 1..(i - 1) :
           dlq_trace[j].op = "status" /\ dlq_trace[j].msg = dlq_trace[i].msg
      /\ \E j \in 1..(i - 1) :
           dlq_trace[j].op \in {"requeue", "notify"} /\ dlq_trace[j].msg = dlq_trace[i].msg

C12_Witness ==
  /\ lpc = "parse" /\ idx = 2
  /\ HasTaskId(batch[1])
  /\ \E i \in DlqDid("delete", batch[1].id) : dlq_trace[i].ok
  /\ \A i \in DOMAIN dlq : dlq[i].id # batch[1].id

\* C13: when the cycle has returned, a message whose processing raised has
\* not been deleted and is still in the queue, every other message of the
\* batch went through exactly the steps it goes through alone, and the
\* handler returned its normal result.
RaisesException(m) == ~m.parses \/ ClassificationRaises(m)
StepsAlone(m) ==
  IF RaisesException(m) THEN <<"exception">>
  ELSE IF ~HasTaskId(m) THEN <<"delete">>
  ELSE <<"classify", "status", IF SpecRetry(m) THEN "requeue" ELSE "notify", "delete">>
C13_BatchIsolation ==
  (lpc = "idle" /\ batch # <<>>) =>
    /\ lambda_result = "Processed DLQ messages"
    /\ \A k \in DOMAIN batch :
         /\ OpsOf(batch[k].id) = StepsAlone(batch[k])
         /\ RaisesException(batch[k]) => \E i \in DOMAIN dlq : dlq[i].id = batch[k].id

C13_Witness ==
  /\ lpc = "idle" /\ Len(batch) = 2
  /\ RaisesException(batch[1])
  /\ HasTaskId(batch[2]) /\ ~RaisesException(batch[2])
  /\ \E i \in DlqDid("delete", batch[2].id) : dlq_trace[i].ok
  /\ \E i \in DOMAIN dlq : dlq[i].id = batch[1].id

\* The classification as the specification words it: an explicit
\* error_type verbatim, otherwise the first rule that matches.
HasWord(text, word) == \E i \in DOMAIN text : text[i] = word
HasWordAnyCase(text, word) == \E i \in DOMAIN text : LowerAtom(text[i]) = word
SourceStartsWith(body, scheme) ==
  /\ body.source_path \notin {Absent, None, NotAnObject}
  /\ Len(body.source_path) >= Len(scheme)
  /\ SubSeq(body.source_path, 1, Len(scheme)) = scheme
SpecErrorType(body) ==
  LET text == MessageText(body)
  IN CASE body.error_type # Absent -> body.error_type
       [] OTHER ->
          CASE HasWordAnyCase(text, "access denied") -> <<"PERMISSION_ERROR">>
            [] OTHER ->
          CASE HasWordAnyCase(text, "not found") -> <<"NOT_FOUND_ERROR">>
            [] OTHER ->
          CASE SourceStartsWith(body, <<"s3:", "/", "/">>) /\ HasWord(text, "NoSuchKey")
                 -> <<"S3_FILE_NOT_FOUND">>
            [] OTHER ->
          CASE SourceStartsWith(body, <<"gs:", "/", "/">>) /\ HasWord(text, "does not exist")
                 -> <<"GCS_FILE_NOT_FOUND">>
            [] OTHER ->
          CASE HasWordAnyCase(text, "timeout") -> <<"TIMEOUT_ERROR">>
            [] OTHER -> <<"UNKNOWN_ERROR">>
Classified == lpc \in {"status", "act", "delete"}

\* C14 as stated: every payload with a task_id is classified, and the error
\* type is the explicit one or the one of the first matching rule.
C14_Classification ==
  /\ Classified => cur.error_type = SpecErrorType(Message.body)
  /\ \A id \in BatchIds :
       (Handled(id) /\ HasTaskId(MsgById(id))) => DlqDid("classify", id) # {}

\* C14 amended: the same, except that classification raises, and yields no
\* error type, exactly for a payload without error_type whose
\* original_message is not an object, or whose source_path is not a string
\* while neither 'access denied' nor 'not found' matches.
SpecClassificationRaises(body) ==
  /\ body.error_type = Absent
  /\ \/ body.source_path = NotAnObject
     \/ /\ body.source_path = None
        /\ ~HasWordAnyCase(MessageText(body), "access denied")
        /\ ~HasWordAnyCase(MessageText(body), "not found")
C14_ClassificationUnlessRaised ==
  /\ Classified => cur.error_type = SpecErrorType(Message.body)
  /\ \A id \in BatchIds :
       (Handled(id) /\ HasTaskId(MsgById(id))) =>
         IF SpecClassificationRaises(MsgById(id).body)
         THEN DlqDid("classify", id) = {} /\ DlqDid("exception", id) # {}
         ELSE DlqDid("classify", id) # {} /\ DlqDid("exception", id) = {}

C14_Witness ==
  /\ lpc = "status"
  /\ Message.body.error_type = Absent
  /\ HasWord(Message.body.text, "Access Denied")
  /\ HasWord(Message.body.text, "timeout")
  /\ cur.error_type = ErrPermission

\* C15: whenever the main queue receives a message, it is during the
\* requeue of the current DLQ message, that message has not been requeued
\* before in the cycle, and the message received is the DLQ payload with
\* retries one higher (1 when the payload had none) and every other field
\* unchanged; a requeue whose send succeeds adds exactly that one message.
C15_RequeuePayload ==
  [][ /\ main_queue' # main_queue =>
           /\ lpc = "act"
           /\ DlqDid("requeue", Message.id) = {}
           /\ main_queue' =
                Append(main_queue,
                       [Message.body EXCEPT
                          !.retries = IF Message.body.retries = -1 THEN 1
                                      ELSE Message.body.retries + 1])
      /\ (/\ lpc = "act" /\ lpc' = "delete"
          /\ dlq_trace'[Len(dlq_trace')].op = "requeue"
          /\ dlq_trace'[Len(dlq_trace')].ok) => Len(main_queue') = Len(main_queue) + 1
    ]_vars

C15_Witness ==
  /\ lpc = "delete"
  /\ LastDlqEvent.op = "requeue" /\ LastDlqEvent.ok
  /\ Message.body.retries >= 1
  /\ main_queue[Len(main_queue)].retries = Message.body.retries + 1
  /\ main_queue[Len(main_queue)].task_id = Message.body.task_id

\* C16: on the permanent-failure path the status update of the message
\* (FAILED, the classified error type, the receive count) is made once and
\* before the one notification, and the notification carries task_id,
\* error_type, the original payload as task_details and a timestamp.
C16_StatusThenNotification ==
  (lpc = "delete" /\ LastDlqEvent.op = "notify") =>
    LET st == DlqDid("status", Message.id)
        nt == DlqDid("notify", Message.id)
        item == dynamodb[Message.body.task_id]
        sent == notifications[Len(notifications)]
    IN /\ Cardinality(st) = 1 /\ Cardinality(nt) = 1
       /\ DlqDid("requeue", Message.id) = {}
       /\ \A i \in st, j \in nt : i < j
       /\ (\A i \in st : dlq_trace[i].ok) =>
            /\ item.status = <<"FAILED">>
            /\ item.error_type = cur.error_type
            /\ item.retry_count = cur.count
       /\ LastDlqEvent.ok =>
            /\ notifications # <<>>
            /\ sent.task_id = Message.body.task_id
            /\ sent.error_type = cur.error_type
            /\ sent.task_details = Message.body
            /\ sent.timestamp >= 1

C16_Witness ==
  /\ lpc = "delete"
  /\ LastDlqEvent.op = "notify" /\ LastDlqEvent.ok
  /\ \A i \in DlqDid("status", Message.id) : dlq_trace[i].ok
  /\ cur.error_type = ErrUnknown
  /\ dynamodb[Message.body.task_id].error_type = ErrUnknown
  /\ notifications[Len(notifications)].task_details = Message.body

\* the first event of message `id` with one of `ops`, 0 when there is none
FirstOf(ops, id) ==
  LET at == {i \in DOMAIN dlq_trace : dlq_trace[i].op \in ops /\ dlq_trace[i].msg = id}
  IN IF at = {} THEN 0 ELSE CHOOSE i \in at : \A j \in at : i <= j
StatusBeforeDecision(m) ==
  /\ FirstOf({"status"}, m.id) > 0
  /\ \A i \in DlqDid("requeue", m.id) \cup DlqDid("notify", m.id) :
       i > FirstOf({"status"}, m.id)
  /\ (lpc = "act" /\ Message.id = m.id /\ LastDlqEvent.ok) =>
       /\ dynamodb[m.body.task_id].status = StFailed
       /\ dynamodb[m.body.task_id].error_type = get_error_type(m.body)
Decided(id) == lpc \in {"act", "delete"} /\ Message.id = id

\* C29 as stated: for every message with a task_id, once the cycle is past
\* it, FAILED with the classified error type was written to the status
\* store before the requeue or the notification, on both paths.
C29_StatusBeforeDecision ==
  \A id \in BatchIds :
    (HasTaskId(MsgById(id)) /\ (Handled(id) \/ Decided(id))) =>
      StatusBeforeDecision(MsgById(id))

\* C29 amended: the same for every message with a task_id whose
\* classification returns; for a message whose classification raises
\* nothing is written and neither requeue nor notification happens.
C29_StatusBeforeDecisionUnlessRaised ==
  \A id \in BatchIds :
    (HasTaskId(MsgById(id)) /\ (Handled(id) \/ Decided(id))) =>
      IF ClassificationRaises(MsgById(id))
      THEN DlqDid("status", id) = {} /\ DlqDid("requeue", id) = {} /\ DlqDid("notify", id) = {}
      ELSE StatusBeforeDecision(MsgById(id))

\* C29 witness: in one cycle the status was written before a requeue for
\* the first message and before a notification for the second.
C29_Witness ==
  /\ lpc = "delete" /\ idx = 2
  /\ OpsOf(batch[1].id) = <<"classify", "status", "requeue", "delete">>
  /\ OpsOf(batch[2].id) = <<"classify", "status", "notify">>
  /\ dynamodb[batch[2].body.task_id].status = StFailed
  /\ dynamodb[batch[2].body.task_id].error_type = cur.error_type

\* C30: for a message whose payload has no task_id the cycle only deletes
\* it: no status write, no requeue and no notification, and after a delete
\* that SQS accepted the message is no longer in the queue.
C30_NoTaskIdDeleted ==
  \A id \in BatchIds :
    (MsgById(id).parses /\ ~HasTaskId(MsgById(id))) =>
      /\ \A i \in DOMAIN dlq_trace : dlq_trace[i].msg = id => dlq_trace[i].op = "delete"
      /\ Handled(id) =>
           /\ OpsOf(id) = <<"delete">>
           /\ (\A i \in DlqDid("delete", id) : dlq_trace[i].ok) =>
                ~ \E k \in DOMAIN dlq : dlq[k].id = id

\* C30 witness: a message without task_id was deleted and the cycle went
\* on; nothing was written, requeued or published.
C30_Witness ==
  /\ idx = 2 /\ Len(batch) = 2
  /\ batch[1].parses /\ ~HasTaskId(batch[1])
  /\ dlq_trace = <<DlqEvent("delete", batch[1].id, TRUE)>>
  /\ Len(dlq) = 1
  /\ main_queue = <<>> /\ notifications = <<>>
  /\ \A k \in StoreKeys : ~dynamodb[k].present

\* C32: a task whose every execution fails with a retriable error is
\* requeued a bounded number of times: no payload is sent to the main queue
\* once it has been requeued 3 times, the number of receives line 80 allows.
C32_RetryBounded ==
  \A i \in DOMAIN main_queue : main_queue[i].retries <= 3

\* C33: whenever a message with a task_id is deleted from the dead-letter
\* queue, its payload was published to the main queue or a failure
\* notification was emitted, and that call succeeded.
C33_DeletedOnlyAfterHandOver ==
  \A id \in BatchIds :
    HasTaskId(MsgById(id)) =>
      \A i \in DlqDid("delete", id) :
        dlq_trace[i].ok =>
          \E j \in DlqDid("requeue", id) \cup DlqDid("notify", id) :
            j < i /\ dlq_trace[j].ok

\* C34: on every execution whose upload succeeded, the local file uploaded
\* is the one this attempt's transform wrote: the transform succeeded and
\* the path it wrote is local_output, for a rename with a pattern too.
C34_UploadsOwnProduct ==
  UploadOk =>
    /\ TransformOk
    /\ action = ActRename =>
         FinalOutputPath(local_input, local_output, task_data.params) = local_output

\* C35: when the same message is delivered twice and the executions
\* interleave, each execution transforms the input its own download wrote,
\* as it does in either sequential order, so its stage outcomes, the object
\* it uploads and the status it writes are those of a sequential run.
C35_DuplicateAsSequential ==
  pc = "dispatch" => Exists(files, local_input)

\* C36: once a task's status record holds SUCCESS, no later write of the
\* executor or of the dead-letter reprocessor changes it to FAILED.
C36_SuccessIsFinal ==
  [][\A k \in StoreKeys :
       (dynamodb[k].present /\ dynamodb[k].status = StSuccess) =>
         dynamodb'[k].status # StFailed]_vars

\* C37: every status record whose status is SUCCESS carries no error_type,
\* also after an earlier attempt wrote FAILED with an error type.
C37_SuccessHasNoErrorType ==
  \A k \in StoreKeys :
    (dynamodb[k].present /\ dynamodb[k].status = StSuccess) =>
      dynamodb[k].error_type \in {Absent, None}

\* C38: for a message the cycle requeues, the cycle's FAILED write comes
\* before the payload is republished and none comes after it, so the status
\* that the execution of the republished payload writes is not overwritten
\* by the cycle that requeued it.
C38_FailedWriteBeforeRepublish ==
  \A id \in BatchIds :
    \A j \in DlqDid("requeue", id) :
      /\ \E i \in DlqDid("status", id) : i < j
      /\ \A i \in DlqDid("status", id) : i < j

\* C38 witness: the cycle wrote FAILED, republished the payload and deleted
\* the message; the republished payload was executed meanwhile and the
\* record holds the SUCCESS it wrote.
C38_Witness ==
  /\ lpc = "idle" /\ dlq = <<>> /\ Len(batch) = 1
  /\ OpsOf(batch[1].id) = <<"classify", "status", "requeue", "delete">>
  /\ \A i \in DOMAIN dlq_trace : dlq_trace[i].ok
  /\ pc = "idle" /\ main_queue = <<>>
  /\ dynamodb[DlqTaskId].status = StSuccess
  /\ dynamodb[DlqTaskId].error_type = get_error_type(batch[1].body)

\* A payload that leaves the error type to inference, and the payloads for
\* which the rules of lines 112-122 come down to the timeout rule.
NoExplicitType(m) == HasTaskId(m) /\ m.body.error_type = Absent
TimeoutInferred(body) ==
  LET text == MessageText(body)
  IN /\ HasWordAnyCase(text, "timeout")
     /\ ~HasWordAnyCase(text, "access denied")
     /\ ~HasWordAnyCase(text, "not found")
     /\ ~(SourceStartsWith(body, <<"s3:", "/", "/">>) /\ HasWord(text, "NoSuchKey"))
     /\ ~(SourceStartsWith(body, <<"gs:", "/", "/">>) /\ HasWord(text, "does not exist"))

\* C39: a message whose payload has no explicit error_type is requeued only
\* when the inferred type is TIMEOUT_ERROR, i.e. its text contains
\* 'timeout' and no earlier rule matches; inference never yields
\* TEMPORARY_FAILURE, CONNECTION_ERROR or RATE_LIMIT_ERROR.
C39_InferredRetryOnlyTimeout ==
  /\ \A id \in BatchIds :
       (NoExplicitType(MsgById(id)) /\ DlqDid("requeue", id) # {}) =>
         TimeoutInferred(MsgById(id).body)
  /\ (Classified /\ NoExplicitType(Message)) =>
       cur.error_type \notin {ErrTemporary, ErrConnection, ErrRateLimit}

\* C39 witness: a message without error_type whose text holds 'NoSuchKey'
\* and 'timeout' and whose source is no S3 object was classified
\* TIMEOUT_ERROR and requeued.
C39_Witness ==
  /\ lpc = "delete"
  /\ NoExplicitType(Message)
  /\ HasWord(Message.body.text, "NoSuchKey")
  /\ cur.error_type = ErrTimeout
  /\ DlqDid("requeue", Message.id) # {}

====
